---- MODULE Spec2Model ----
(***************************************************************************)
(* A model of the key/value server: the per-connection reader and writer   *)
(* tasks (listener.rs), the command actor (server/mod.rs), the replica     *)
(* roster and the replica-side handshake and streaming loop                *)
(* (server/replication.rs) and the keyspace (server/database.rs).          *)
(*                                                                         *)
(* Byte strings are TLA+ strings.  A Value is a record                     *)
(*   [t |-> variant, size |-> carried size, v |-> sequence of strings]     *)
(* where v holds the text of a simple string / error, the bytes of a bulk  *)
(* string, or the bulk-string elements of an array.  A Command is          *)
(*   [name, size, args, opt]                                               *)
(* where args are the byte-string fields in declaration order (an absent   *)
(* Option<Vec<u8>> is left out) and opt is the optional number (the expiry *)
(* of SET in ms, the offset of PSYNC), a sequence of length 0 or 1.        *)
(*                                                                         *)
(* The value codec (protocol/value/reader.rs and writer.rs) is modelled on *)
(* bytes in a section of its own, where a byte is a number, the elements   *)
(* of an array are values, and the stream is a sequence of buffer fills.   *)
(***************************************************************************)
EXTENDS Integers, Sequences, FiniteSets, TLC

VARIABLES
    suite,       \* the workload the environment drives: which inputs the sockets deliver
    listenerPc,  \* listener task: "run" (in its accept loop) or "done" (returned)
    wirePc,      \* value codec on its own: "idle", "write", "split", "read", "line", "done"
    wireIn,      \* value codec: the values still to be written
    wireBytes,   \* value codec: the bytes the writer has produced / the stream to read
    wireFills,   \* value codec: the unread stream as the fills the BufReader will see
    wireOut,     \* value codec: the results of the reads, in order
    role,        \* ServerOptions.replica_of: "master" (None) or "replica" (Some)
    port,        \* ServerOptions.port
    now,         \* Instant::now(), in ms
    initPc,      \* replication task: position in replication::start / init
    initResult,  \* the repl_init one-shot: "none", "ok" or "err"
    hsLog,       \* history: the steps init has performed on the upstream socket
    queuedAtInit, \* history: messages sent to the actor before the one-shot was sent
    upPc,        \* replication_loop: "none", "run" or "done"
    upSock,      \* upstream socket as seen by the replica: "none", "open", "dropped"
    upQueue,     \* values_sender/values_receiver channel of replication_loop
    upWriting,   \* values the upstream writer task has received and not yet written
    upWPc,       \* upstream writer task: "none", "run" or "done"
    upOut,       \* history: values written to the upstream socket by the writer task
    upRead,      \* history: commands the streaming loop has read from the upstream
    blackHole,   \* history: number of reply lists the discarding channel received
    actorPc,     \* command_loop: "init" (awaiting repl_init), "run" or "stopped"
    mailbox,     \* the server channel: messages sent and not yet received
    arrived,     \* history: every message ever sent on the server channel
    handled,     \* history: every message command_loop has handled
    execLog,     \* history: one entry per ProcessCommand handled
    database,    \* Server.database.data: key -> Entry, NoEntry when absent
    replicas,    \* Server.replication.replicas
    removed,     \* history: addresses that replicate dropped from the roster
    offset,      \* Server.offset
    readerPc,    \* per client connection: "idle" (not accepted), "run", "done"
    writerPc,    \* per client connection: "idle", "run", "done"
    sock,        \* per client connection: "closed" (not accepted), "open", "dropped"
    replies,     \* per client connection: the values_sender/values_receiver channel
    writing,     \* per client connection: values received by the writer, not yet written
    out,         \* history per client connection: values written to the socket
    readLog      \* history per client connection: the valid commands read

vars == <<suite, listenerPc, wirePc, wireIn, wireBytes, wireFills, wireOut, role, port, now, initPc, initResult, hsLog, queuedAtInit, upPc, upSock, upQueue,
          upWriting, upWPc, upOut, upRead, blackHole, actorPc, mailbox, arrived,
          handled, execLog, database, replicas, removed, offset, readerPc,
          writerPc, sock, replies, writing, out, readLog>>

(***************************************************************************)
(* Bounds of the model.                                                    *)
(***************************************************************************)
MaxConns == 2        \* client connections the listener of a master accepts
MaxReplicaConns == 1 \* client connections the listener of a replica accepts
MaxReads == 3        \* values read from client sockets of a master, all connections together
MaxReplicaReads == 2 \* values read from client sockets of a replica
MaxDrops == 1        \* client connections that are dropped
MaxUpReads == 2      \* values the streaming loop reads from the upstream
MaxAdds == 1         \* calls of ServerHandle::add_replica
MaxTime == 3         \* clock ticks, in ms
MaxRosterConns == 3  \* roster workload: connections accepted
MaxRosterReads == 2  \* roster workload: values read from client sockets
MaxRosterAdds == 3   \* roster workload: calls of ServerHandle::add_replica
MaxDbConns == 1      \* keyspace workload: connections accepted
MaxDbReads == 3      \* keyspace workload: values read from client sockets
MaxErrConns == 1     \* error workload: connections accepted
MaxErrReads == 3     \* error workload: values read from client sockets
MaxWaitConns == 2    \* WAIT workload: connections accepted
MaxWaitReads == 2    \* WAIT workload: values read from client sockets
MaxWaitAdds == 2     \* WAIT workload: calls of ServerHandle::add_replica
MaxInfoConns == 1    \* INFO workload: connections accepted
MaxInfoReads == 2    \* INFO workload: values read from client sockets
MaxListenConns == 2  \* listener workload: connections accepted
MaxListenReads == 2  \* listener workload: values read from client sockets
MaxFrameConns == 1   \* two-key workload: connections accepted
MaxFrameReads == 3   \* two-key workload: values read from client sockets

Conns == 1..MaxRosterConns
Ports == {6380}
Keys == {"k"}

(***************************************************************************)
(* Values and their sizes.                                                 *)
(***************************************************************************)
\* usize::to_string().len()
DecLen(n) == Len(ToString(n))

RECURSIVE SumSeq(_)
SumSeq(s) == IF s = <<>> THEN 0 ELSE Head(s) + SumSeq(Tail(s))

MapSeq(s, Op(_)) == [i \in 1..Len(s) |-> Op(s[i])]

\* Value::simple_string
simple_string(s) == [t |-> "SimpleString", size |-> DecLen(Len(s)) + 3, v |-> <<s>>]

\* Value::SimpleError(message), built directly by read_command / parse_command
SimpleError(s) == [t |-> "SimpleError", size |-> 0, v |-> <<s>>]

\* Value::bulk_string_from_bytes
bulk_string_from_bytes(b) == [t |-> "BulkString", size |-> DecLen(Len(b)) + 3, v |-> <<b>>]

BulkSize(b) == bulk_string_from_bytes(b).size

\* build_command: an array of bulk strings, the command name first
build_command(command, args) ==
    LET array == <<command>> \o args
        parts_size == SumSeq(MapSeq(array, BulkSize))
    IN  [t |-> "Array", size |-> DecLen(Len(array)) + 3 + parts_size, v |-> array]

\* Value::command_str
command_str(command, args) == build_command(command, args)

\* Value::ok
ok == simple_string("OK")

NullBulkString == [t |-> "NullBulkString", size |-> 5, v |-> <<>>]

\* ValueReader::read_bulk_string: the size of a bulk string read from the wire
ReadBulkSize(b) == Len(b) + (DecLen(Len(b)) + 2) + 3

\* ValueReader::read_array: the array of bulk strings read from the wire
ReadArray(parts) ==
    [t |-> "Array",
     size |-> SumSeq(MapSeq(parts, ReadBulkSize)) + (DecLen(Len(parts)) + 2) + 1,
     v |-> parts]

(***************************************************************************)
(* Bytes and texts.  A byte is a number 0..255 and a byte string or a      *)
(* String a sequence of bytes; as_bytes gives the bytes of the texts the   *)
(* model writes as TLA+ strings.                                           *)
(***************************************************************************)
CR == 13
LF == 10
PLUS == 43
MINUS == 45
COLON == 58
DOLLAR == 36
STAR == 42

CRLF == <<CR, LF>>

RECURSIVE Flat(_)
Flat(fills) == IF fills = <<>> THEN <<>> ELSE Head(fills) \o Flat(Tail(fills))

\* usize::to_string, as bytes
RECURSIVE to_string(_)
to_string(n) == IF n < 10 THEN <<48 + n>> ELSE to_string(n \div 10) \o <<48 + (n % 10)>>

\* i64::to_string, as bytes
i64_to_string(n) == IF n < 0 THEN <<MINUS>> \o to_string(0 - n) ELSE to_string(n)

RECURSIVE digits_value(_)
digits_value(ds) ==
    IF ds = <<>> THEN 0
    ELSE digits_value(SubSeq(ds, 1, Len(ds) - 1)) * 10 + (ds[Len(ds)] - 48)

\* str::parse::<i64> and ::<i32>: an optional sign and at least one digit; <<n>> or
\* <<>> (an error).  The texts of the model have few digits, so the number fits
\* both types.
from_str(bytes) ==
    LET signed == bytes # <<>> /\ Head(bytes) \in {PLUS, MINUS}
        body == IF signed THEN Tail(bytes) ELSE bytes
        n == IF signed /\ Head(bytes) = MINUS THEN 0 - digits_value(body)
             ELSE digits_value(body)
    IN  IF body = <<>> \/ \E i \in DOMAIN body : body[i] < 48 \/ body[i] > 57
        THEN <<>>
        ELSE <<n>>

\* String::from_utf8 succeeds, on ASCII bytes and the byte 0xFF (never valid)
valid_utf8(bytes) == \A i \in DOMAIN bytes : bytes[i] < 128

\* Value::integer
integer(n) == [t |-> "Integer", size |-> Len(i64_to_string(n)), v |-> <<n>>]

\* Value::simple_error
simple_error(s) == [t |-> "SimpleError", size |-> DecLen(Len(s)) + 3, v |-> <<s>>]

NullArray == [t |-> "NullArray", size |-> 5, v |-> <<>>]

NoValue == [t |-> "None", size |-> 0, v |-> <<>>]

\* str::as_bytes, on the texts the values of the model are built from
as_bytes(s) ==
    CASE s = "OK" -> <<79, 75>>
      [] s = "E" -> <<69>>
      [] s = "PING" -> <<80, 73, 78, 71>>
      [] s = "GET" -> <<71, 69, 84>>
      [] s = "SET" -> <<83, 69, 84>>
      [] s = "PX" -> <<80, 88>>
      [] s = "k" -> <<107>>
      [] s = "v" -> <<118>>
      [] s = "1" -> <<49>>
      [] s = "x" -> <<120>>
      [] s = "bogus" -> <<98, 111, 103, 117, 115>>
      [] s = "" -> <<>>
      [] s = "ECHO" -> <<69, 67, 72, 79>>
      [] s = "INFO" -> <<73, 78, 70, 79>>
      [] s = "REPLCONF" -> <<82, 69, 80, 76, 67, 79, 78, 70>>
      [] s = "PSYNC" -> <<80, 83, 89, 78, 67>>
      [] s = "WAIT" -> <<87, 65, 73, 84>>
      [] s = "ping" -> <<112, 105, 110, 103>>
      [] s = "px" -> <<112, 120>>
      [] s = "a" -> <<97>>
      [] s = "b" -> <<98>>
      [] s = "id" -> <<105, 100>>
      [] s = "?" -> <<63>>
      [] s = "*" -> <<42>>
      [] s = "GETACK" -> <<71, 69, 84, 65, 67, 75>>
      [] s = "0" -> <<48>>
      [] s = "2" -> <<50>>
      [] s = "-1" -> <<45, 49>>
      [] s = "-2" -> <<45, 50>>
      [] s = "+1" -> <<43, 49>>
      [] s = "01" -> <<48, 49>>
      [] s = "100" -> <<49, 48, 48>>
      [] s = "4294967297" -> <<52, 50, 57, 52, 57, 54, 55, 50, 57, 55>>

\* the texts as_bytes is defined on
Texts == {"OK", "E", "PING", "GET", "SET", "PX", "k", "v", "1", "x", "bogus", "",
          "ECHO", "INFO", "REPLCONF", "PSYNC", "WAIT", "ping", "px", "a", "b", "id",
          "?", "*", "GETACK", "0", "2", "-1", "-2", "+1", "01", "100", "4294967297"}

\* String::from_utf8 on valid bytes: the text with these bytes
as_text(bytes) == CHOOSE s \in Texts : as_bytes(s) = bytes

(***************************************************************************)
(* Commands: protocol/command/parse.rs, on the byte strings the model's    *)
(* inputs are built from.                                                  *)
(***************************************************************************)
\* str::to_uppercase, on the names and keys the inputs use
to_uppercase(s) ==
    CASE s = "ping" -> "PING"
      [] s = "set" -> "SET"
      [] s = "get" -> "GET"
      [] s = "px" -> "PX"
      [] s = "getack" -> "GETACK"
      [] s = "GetAck" -> "GETACK"
      [] s = "replconf" -> "REPLCONF"
      [] s = "psync" -> "PSYNC"
      [] s = "listening-port" -> "LISTENING-PORT"
      [] s = "capa" -> "CAPA"
      [] s = "bogus" -> "BOGUS"
      [] OTHER -> s

\* F of the value of x, with x evaluated once
WithValue(x, F(_)) == CHOOSE y \in {F(v) : v \in {x}} : TRUE

\* the magnitude of a decimal text as hi * 2^16 + lo, lo < 2^16: the numbers a
\* peer can send are wider than the 32 bits of one number of the model (texts of
\* up to 13 digits fit)
RECURSIVE wide_value(_)
wide_value(ds) ==
    IF ds = <<>> THEN [hi |-> 0, lo |-> 0]
    ELSE WithValue(wide_value(SubSeq(ds, 1, Len(ds) - 1)), LAMBDA w :
             [hi |-> w.hi * 10 + (w.lo * 10 + (ds[Len(ds)] - 48)) \div 2^16,
              lo |-> (w.lo * 10 + (ds[Len(ds)] - 48)) % 2^16])

\* str::parse::<T> for T = "i64" and T = "u64": an optional + (for i64 also -) and
\* at least one digit; <<[neg, hi, lo]>>, or <<>> for an error
str_parse(T, bytes) ==
    LET sign == bytes # <<>> /\ (Head(bytes) = PLUS \/ (T = "i64" /\ Head(bytes) = MINUS))
        body == IF sign THEN Tail(bytes) ELSE bytes
    IN  IF body = <<>> \/ \E i \in DOMAIN body : body[i] < 48 \/ body[i] > 57
        THEN <<>>
        ELSE WithValue(wide_value(body), LAMBDA w :
                 <<[neg |-> sign /\ Head(bytes) = MINUS /\ (w.hi # 0 \/ w.lo # 0),
                    hi |-> w.hi, lo |-> w.lo]>>)

\* parse_number::<T> on a text (from_utf8 has succeeded)
parse_number(T, s) == str_parse(T, as_bytes(s))

\* a parsed number that fits as a number of the model
number(w) == IF w.neg THEN 0 - (w.hi * 2^16 + w.lo) ELSE w.hi * 2^16 + w.lo

\* Duration::from_millis(expiry): the Duration in ms
from_millis(w) == number(w)

\* offset as u32: the low 32 bits of the i64
as_u32(w) == (w.hi % 2^16) * 2^16 + w.lo

Cmd(name, size, args, opt) == [name |-> name, size |-> size, args |-> args, opt |-> opt]
NoCommand == Cmd("", 0, <<>>, <<>>)
Parsed(c) == [ok |-> TRUE, cmd |-> c, err |-> ""]
ParseError(msg) == [ok |-> FALSE, cmd |-> NoCommand, err |-> msg]

parse_ping(size, args) ==
    Parsed(Cmd("Ping", size, IF args = <<>> THEN <<>> ELSE <<Head(args)>>, <<>>))

parse_echo(size, args) ==
    IF args = <<>> THEN ParseError("wrong number of arguments for command ECHO")
    ELSE Parsed(Cmd("Echo", size, <<Head(args)>>, <<>>))

\* a GET that takes a missing key for the empty key
parse_get_lenient(size, args) ==
    Parsed(Cmd("Get", size, <<IF args = <<>> THEN "" ELSE Head(args)>>, <<>>))

parse_get(size, args) ==
    IF args = <<>> THEN ParseError("wrong number of arguments for command GET")
    ELSE Parsed(Cmd("Get", size, <<Head(args)>>, <<>>))

\* parse_set_args / parse_set_expiry: <<ok, expiry>>, the expiry a u64 in ms
parse_set_args(args) ==
    IF args = <<>> THEN [ok |-> TRUE, opt |-> <<>>, err |-> ""]
    ELSE IF to_uppercase(Head(args)) # "PX"
         THEN [ok |-> FALSE, opt |-> <<>>, err |-> "invalid SET argument"]
    ELSE IF Tail(args) = <<>>
         THEN [ok |-> FALSE, opt |-> <<>>, err |-> "wrong number of arguments for command SET PX"]
    ELSE WithValue(parse_number("u64", Head(Tail(args))), LAMBDA n :
             IF n = <<>>
             THEN [ok |-> FALSE, opt |-> <<>>, err |-> "integer value for SET PX argument"]
             ELSE [ok |-> TRUE, opt |-> <<from_millis(n[1])>>, err |-> ""])

parse_set(size, args) ==
    IF Len(args) < 2 THEN ParseError("wrong number of arguments for command SET")
    ELSE LET expiry == parse_set_args(SubSeq(args, 3, Len(args)))
         IN  IF expiry.ok
             THEN Parsed(Cmd("Set", size, <<args[1], args[2]>>, expiry.opt))
             ELSE ParseError(expiry.err)

parse_info(size, args) == Parsed(Cmd("Info", size, args, <<>>))

parse_replconf(size, args) ==
    IF Len(args) < 2 THEN ParseError("wrong number of arguments for command REPLCONF")
    ELSE Parsed(Cmd("Replconf", size, <<args[1], args[2]>>, <<>>))

parse_psync_replid(replid) == IF replid = "?" THEN <<>> ELSE <<replid>>

\* parse_psync_offset: <<ok, offset>>, the offset an Option<u32>
parse_psync_offset(text) ==
    WithValue(parse_number("i64", text), LAMBDA n :
        IF n = <<>> THEN [ok |-> FALSE, opt |-> <<>>]
        ELSE IF n[1].neg THEN [ok |-> TRUE, opt |-> <<>>]
        ELSE [ok |-> TRUE, opt |-> <<as_u32(n[1])>>])

parse_psync(size, args) ==
    IF Len(args) < 2 THEN ParseError("wrong number of arguments for command PSYNC")
    ELSE WithValue(parse_psync_offset(args[2]), LAMBDA master_repl_offset :
             IF ~master_repl_offset.ok THEN ParseError("PSYNC offset")
             ELSE Parsed(Cmd("Psync", size, parse_psync_replid(args[1]),
                             master_repl_offset.opt)))

\* parse_wait: the counts are integers (the type of the fields is that of the Wait
\* variant; the model takes i64)
parse_wait(size, args) ==
    IF Len(args) < 2 THEN ParseError("wrong number of arguments for command WAIT")
    ELSE WithValue(<<parse_number("i64", args[1]), parse_number("i64", args[2])>>, LAMBDA n :
             IF n[1] = <<>> THEN ParseError("invalid value for replica count")
             ELSE IF n[2] = <<>> THEN ParseError("invalid value for timeout")
             ELSE Parsed(Cmd("Wait", size, <<>>, <<number(n[1][1]), number(n[2][1])>>)))

from_parts(size, values) ==
    LET command == to_uppercase(Head(values))
        args == Tail(values)
    IN  CASE command = "PING" -> parse_ping(size, args)
          [] command = "ECHO" -> parse_echo(size, args)
          [] command = "GET" -> parse_get(size, args)
          [] command = "SET" -> parse_set(size, args)
          [] command = "INFO" -> parse_info(size, args)
          [] command = "REPLCONF" -> parse_replconf(size, args)
          [] command = "PSYNC" -> parse_psync(size, args)
          [] command = "WAIT" -> parse_wait(size, args)
          [] OTHER -> ParseError("invalid command")

\* from_value / from_values, on a value read from the wire
from_value(value) ==
    IF value.t # "Array" THEN ParseError("value must be a RESP array")
    ELSE IF value.v = <<>> THEN ParseError("RESP array must not be empty")
    ELSE from_parts(value.size, value.v)

is_write(command) == command.name = "Set"

\* a to_value that leaves the expiry of SET out
to_value_no_expiry(command) ==
    CASE command.name = "Ping" -> build_command("PING", command.args)
      [] command.name = "Echo" -> build_command("ECHO", command.args)
      [] command.name = "Get" -> build_command("GET", command.args)
      [] command.name = "Set" -> build_command("SET", command.args)
      [] command.name = "Info" -> build_command("INFO", command.args)
      [] command.name = "Replconf" -> build_command("REPLCONF", command.args)
      [] command.name = "Psync" ->
            build_command("PSYNC",
                <<IF command.args = <<>> THEN "?" ELSE command.args[1],
                  IF command.opt = <<>> THEN "-1" ELSE ToString(command.opt[1])>>)
      [] command.name = "Wait" ->
            build_command("WAIT", <<ToString(command.opt[1]), ToString(command.opt[2])>>)

\* format::to_value: the array of bulk strings fanned out to the replicas
to_value(command) ==
    CASE command.name = "Ping" -> build_command("PING", command.args)
      [] command.name = "Echo" -> build_command("ECHO", command.args)
      [] command.name = "Get" -> build_command("GET", command.args)
      [] command.name = "Set" ->
            IF command.opt = <<>> THEN build_command("SET", command.args)
            ELSE build_command("SET", command.args \o <<"PX", ToString(command.opt[1])>>)
      [] command.name = "Info" -> build_command("INFO", command.args)
      [] command.name = "Replconf" -> build_command("REPLCONF", command.args)
      [] command.name = "Psync" ->
            build_command("PSYNC",
                <<IF command.args = <<>> THEN "?" ELSE command.args[1],
                  IF command.opt = <<>> THEN "-1" ELSE ToString(command.opt[1])>>)
      [] command.name = "Wait" ->
            build_command("WAIT", <<ToString(command.opt[1]), ToString(command.opt[2])>>)

(***************************************************************************)
(* The keyspace: server/database.rs.  The map is a function whose domain   *)
(* is the set of keys present.                                             *)
(***************************************************************************)
Entry(value, expiry, created_at) ==
    [value |-> value, expiry |-> expiry, created_at |-> created_at]

\* an entry that is already expired at the instant created_at + expiry
is_expired_inclusive(entry, t) ==
    IF entry.expiry # <<>> THEN entry.created_at + entry.expiry[1] <= t ELSE FALSE

\* Entry::is_expired, at Instant::now() = t
is_expired(entry, t) ==
    IF entry.expiry # <<>> THEN entry.created_at + entry.expiry[1] < t ELSE FALSE

\* a get that removes every expired entry it finds in the map
DatabaseGet_sweep(data, key, t) ==
    [data |-> [k \in {x \in DOMAIN data : ~is_expired(data[x], t)} |-> data[k]],
     value |-> IF key \in DOMAIN data /\ ~is_expired(data[key], t)
               THEN <<data[key].value>> ELSE <<>>]

\* Database::get: the map afterwards and the Option returned
DatabaseGet(data, key, t) ==
    IF key \in DOMAIN data
    THEN IF is_expired(data[key], t)
         THEN [data |-> [k \in DOMAIN data \ {key} |-> data[k]], value |-> <<>>]
         ELSE [data |-> data, value |-> <<data[key].value>>]
    ELSE [data |-> data, value |-> <<>>]

\* a set that leaves an existing entry alone (entry().or_insert)
DatabaseSet_or_insert(data, key, value, expiry, t) ==
    [k \in DOMAIN data \cup {key} |->
        IF k \in DOMAIN data THEN data[k] ELSE Entry(value, expiry, t)]

\* a set that keeps the created_at of the entry it replaces
DatabaseSet_keep_created(data, key, value, expiry, t) ==
    [k \in DOMAIN data \cup {key} |->
        IF k # key THEN data[k]
        ELSE Entry(value, expiry, IF key \in DOMAIN data THEN data[key].created_at ELSE t)]

\* Database::set (HashMap::insert replaces the entry of the key)
DatabaseSet(data, key, value, expiry, t) ==
    [k \in DOMAIN data \cup {key} |->
        IF k = key THEN Entry(value, expiry, t) ELSE data[k]]

(***************************************************************************)
(* The command actor's handlers: server/mod.rs, impl Server.               *)
(***************************************************************************)
MasterReplid == "8371b4fb1155b71f4a04d3e1bc3e18c4a990aeeb"

\* the rdb of Server::psync is an opaque blob of RdbLen bytes
RdbLen == 88

ping(message) ==
    IF message = <<>> THEN <<simple_string("PONG")>>
    ELSE <<bulk_string_from_bytes(message[1])>>

echo(message) == <<bulk_string_from_bytes(message)>>

\* Server::get, given what Database::get returned
get(found) ==
    IF found # <<>> THEN <<bulk_string_from_bytes(found[1])>> ELSE <<NullBulkString>>

\* Server::set replies OK
set == <<ok>>

\* Server::info: the lines are joined in the iteration order of a HashMap, which
\* is not specified; every order is a possible reply
info(r) ==
    IF r = "replica" THEN { <<bulk_string_from_bytes("role:slave")>> }
    ELSE LET lines == <<"role:master",
                        "master_replid:" \o MasterReplid,
                        "master_repl_offset:0">>
             Perms == {p \in [1..3 -> 1..3] : \A i, j \in 1..3 : i # j => p[i] # p[j]}
         IN  { <<bulk_string_from_bytes(
                    lines[p[1]] \o "\r\n" \o lines[p[2]] \o "\r\n" \o lines[p[3]])>> :
               p \in Perms }

\* Server::replconf reads self.offset as it is when the handler runs
replconf(key, off) ==
    IF to_uppercase(key) = "GETACK"
    THEN <<command_str("REPLCONF", <<"ACK", ToString(off)>>)>>
    ELSE <<ok>>

\* a PSYNC reply without the snapshot
psync_without_snapshot ==
    <<simple_string("FULLRESYNC " \o MasterReplid \o " 0")>>

psync ==
    <<simple_string("FULLRESYNC " \o MasterReplid \o " 0"),
      [t |-> "BulkBytes", size |-> RdbLen, v |-> <<"rdb">>]>>

\* a count of the roster entries whose reply queue is still open
connected_replicas_open(rs) ==
    Cardinality({i \in DOMAIN rs : writerPc[rs[i].values_sender] = "run"})

\* ReplicationManager::connected_replicas: the length of the roster
connected_replicas(rs) == Len(rs)

\* the reply to WAIT: the count of connected replicas as an integer, at once,
\* whatever the number of replicas and the timeout asked for
wait(rs) == <<integer(connected_replicas(rs))>>

\* Server::handle with the offset advanced before the reply is built
handle_offset_first(command, data, off, t, r, rs) ==
    CASE command.name = "Ping" -> { [response |-> ping(command.args), data |-> data] }
      [] command.name = "Echo" -> { [response |-> echo(command.args[1]), data |-> data] }
      [] command.name = "Get" ->
            LET res == DatabaseGet(data, command.args[1], t)
            IN  { [response |-> get(res.value), data |-> res.data] }
      [] command.name = "Set" ->
            { [response |-> set,
               data |-> DatabaseSet(data, command.args[1], command.args[2],
                                    command.opt, t)] }
      [] command.name = "Info" -> { [response |-> x, data |-> data] : x \in info(r) }
      [] command.name = "Replconf" ->
            { [response |-> replconf(command.args[1], off + command.size),
               data |-> data] }
      [] command.name = "Psync" -> { [response |-> psync, data |-> data] }
      [] command.name = "Wait" -> { [response |-> wait(rs), data |-> data] }

\* Server::handle: the possible outcomes [response, data] of the match; the caller
\* then adds the command's size to the offset (line 151)
handle(command, data, off, t, r, rs) ==
    CASE command.name = "Ping" -> { [response |-> ping(command.args), data |-> data] }
      [] command.name = "Echo" -> { [response |-> echo(command.args[1]), data |-> data] }
      [] command.name = "Get" ->
            LET res == DatabaseGet(data, command.args[1], t)
            IN  { [response |-> get(res.value), data |-> res.data] }
      [] command.name = "Set" ->
            { [response |-> set,
               data |-> DatabaseSet(data, command.args[1], command.args[2],
                                    command.opt, t)] }
      [] command.name = "Info" -> { [response |-> x, data |-> data] : x \in info(r) }
      [] command.name = "Replconf" ->
            { [response |-> replconf(command.args[1], off), data |-> data] }
      [] command.name = "Psync" -> { [response |-> psync, data |-> data] }
      [] command.name = "Wait" -> { [response |-> wait(rs), data |-> data] }

\* an offset that counts the writes only
OffsetAfter_writes_only(off, command) ==
    IF is_write(command) THEN off + command.size ELSE off

\* the offset after Server::handle
OffsetAfter(off, command) == off + command.size

(***************************************************************************)
(* Channels.  A channel endpoint is named by the queue it feeds: a client  *)
(* connection's reply queue, the reply queue of the upstream connection,   *)
(* or the discarding channel of replication_loop.  A queue item is a       *)
(* Vec<Value>; origin and re are history: who enqueued it ("reply" the     *)
(* actor, "invalid" the reader task, "fanout" replicate) and the index in  *)
(* execLog of the command it belongs to.                                   *)
(***************************************************************************)
Client(c) == [kind |-> "client", id |-> c]
Upstream == [kind |-> "upstream", id |-> 0]
BlackHole == [kind |-> "blackhole", id |-> 0]

Item(values, origin, re) == [values |-> values, origin |-> origin, re |-> re]
NoItem == Item(<<>>, "", 0)

\* UnboundedSender::send appends; UnboundedReceiver::recv takes the head
Send(queue, x) == Append(queue, x)
Recv(queue) == Head(queue)

\* reply queues that all close as soon as one writer task has exited
ClientOpen_none_closed(c) == writerPc[c] = "run" /\ \A d \in Conns : writerPc[d] # "done"

\* a send succeeds as long as the receiver has not been dropped
ClientOpen(c) == writerPc[c] = "run"
TargetOpen(target) ==
    CASE target.kind = "client" -> ClientOpen(target.id)
      [] target.kind = "upstream" -> upWPc = "run"
      [] target.kind = "blackhole" -> TRUE

ProcessCommand(command, reply_to, seq) ==
    [type |-> "ProcessCommand", command |-> command, reply_to |-> reply_to,
     address |-> 0, seq |-> seq]
AddReplica(address, values_sender) ==
    [type |-> "AddReplica", command |-> NoCommand, reply_to |-> values_sender,
     address |-> address, seq |-> 0]

\* a server channel that hands the newest message out first
ServerSendFront(queue, message) == <<message>> \o queue

\* ServerHandle::send / ServerHandle::add_replica: the message joins the server
\* channel
ServerSend(queue, message) == Send(queue, message)

\* the senders of connection c's reply queue that are still alive: the reader
\* task's, the clones held by queued messages, the roster's
SendersAlive(c) ==
    \/ readerPc[c] = "run"
    \/ \E i \in DOMAIN mailbox : mailbox[i].reply_to = Client(c)
    \/ \E i \in DOMAIN replicas : replicas[i].values_sender = c

(***************************************************************************)
(* The roster: ReplicationManager.                                         *)
(***************************************************************************)
Replica(address, values_sender) == [address |-> address, values_sender |-> values_sender]

\* ReplicationManager::add
add(rs, address, values_sender) == Append(rs, Replica(address, values_sender))

\* a send_to_replica that reports success whatever the channel says
send_to_replica_ok(replica, queues, item) ==
    [ok |-> TRUE,
     queues |-> IF ClientOpen(replica.values_sender)
                THEN [queues EXCEPT ![replica.values_sender] = Send(@, item)]
                ELSE queues]

\* send_to_replica: whether the send succeeded, and the queues afterwards
send_to_replica(replica, queues, item) ==
    IF ClientOpen(replica.values_sender)
    THEN [ok |-> TRUE,
          queues |-> [queues EXCEPT ![replica.values_sender] = Send(@, item)]]
    ELSE [ok |-> FALSE, queues |-> queues]

\* a fan-out that stops at the first failed send and keeps only the replicas
\* before it
RECURSIVE retain_until_failure(_, _, _)
retain_until_failure(rs, queues, item) ==
    IF rs = <<>> THEN [replicas |-> <<>>, queues |-> queues, removed |-> {}]
    ELSE LET sent == send_to_replica(Head(rs), queues, item)
             rest == retain_until_failure(Tail(rs), sent.queues, item)
         IN  IF sent.ok
             THEN [replicas |-> <<Head(rs)>> \o rest.replicas,
                   queues |-> rest.queues, removed |-> rest.removed]
             ELSE [replicas |-> <<>>, queues |-> sent.queues,
                   removed |-> {rs[i].address : i \in DOMAIN rs}]

\* Vec::retain(|r| send_to_replica(r, command)): visits the roster in order
RECURSIVE retain(_, _, _)
retain(rs, queues, item) ==
    IF rs = <<>> THEN [replicas |-> <<>>, queues |-> queues, removed |-> {}]
    ELSE LET sent == send_to_replica(Head(rs), queues, item)
             rest == retain(Tail(rs), sent.queues, item)
         IN  [replicas |-> IF sent.ok THEN <<Head(rs)>> \o rest.replicas
                           ELSE rest.replicas,
              queues |-> rest.queues,
              removed |-> IF sent.ok THEN rest.removed
                          ELSE rest.removed \cup {Head(rs).address}]

\* ReplicationManager::replicate
replicate(command, rs, queues, re) ==
    IF is_write(command)
    THEN retain(rs, queues, Item(<<to_value(command)>>, "fanout", re))
    ELSE [replicas |-> rs, queues |-> queues, removed |-> {}]

\* command_loop, lines 99-103: the command is replicated when the reply was sent
ShouldReplicate(replySent) == replySent

(***************************************************************************)
(* Inputs: what a read of one value from a socket can return.              *)
(***************************************************************************)
ReadOk(parts) == [kind |-> "value", value |-> ReadArray(parts)]
ReadInvalid == [kind |-> "invalid", value |-> ReadArray(<<>>)]

\* what the clients of a master, and the clients of a replica, send
ClientInputs ==
    CASE suite = "master" ->
            { ReadOk(<<"PING">>), ReadOk(<<"SET", "k", "v">>), ReadOk(<<"PSYNC", "?", "-1">>) }
      [] suite = "replica" -> { ReadOk(<<"PING">>), ReadOk(<<"GET", "k">>) }
      [] suite = "roster" -> { ReadOk(<<"SET", "k", "v">>) }
      [] suite = "info" -> { ReadOk(<<"INFO">>), ReadOk(<<"PING">>) }
      [] suite = "frame" ->
            { ReadOk(<<"SET", "k", "v", "PX", "1">>), ReadOk(<<"SET", "k", "w">>),
              ReadOk(<<"SET", "a", "v", "PX", "1">>), ReadOk(<<"GET", "k">>),
              ReadOk(<<"GET", "a">>), ReadOk(<<"PING">>) }
      [] suite = "listener" -> { ReadOk(<<"PING">>) }
      [] suite = "wait" ->
            { ReadOk(<<"SET", "k", "v">>), ReadOk(<<"WAIT", "0", "0">>),
              ReadOk(<<"WAIT", "2", "100">>) }
      [] suite = "db" ->
            { ReadOk(<<"SET", "k", "v">>), ReadOk(<<"SET", "k", "w">>),
              ReadOk(<<"SET", "k", "v", "px", "1">>), ReadOk(<<"GET", "k">>) }
      [] OTHER -> {}

\* what the master streams to a replica

UpInputs ==
    { ReadOk(<<"SET", "k", "v">>), ReadOk(<<"REPLCONF", "GETACK", "*">>),
      ReadOk(<<"replconf", "getack", "*">>) }

\* read_command / CommandReader::read on a value that was read: the command, or
\* the simple error of ReadCommandResult::Invalid / CommandReadError::Invalid
read_command(input) ==
    IF input.kind = "invalid"
    THEN [ok |-> FALSE, cmd |-> NoCommand, err |-> "invalid RESP value"]
    ELSE from_value(input.value)

ReadEntry(res) == [ok |-> res.ok, command |-> res.cmd, err |-> res.err]

\* the match of handle_client_reader on a result of read_command that is not Stop
ReaderTurn(c, res) ==
    LET seq == Len(readLog[c]) + 1
        message == ProcessCommand(res.cmd, Client(c), seq)
    IN  /\ readLog' = [readLog EXCEPT ![c] = Append(@, ReadEntry(res))]
        /\ IF res.ok
           THEN \* ReadCommandResult::Success: server.send
                IF actorPc # "stopped"
                THEN /\ mailbox' = ServerSend(mailbox, message)
                     /\ arrived' = Append(arrived, message)
                     /\ UNCHANGED <<readerPc, replies>>
                ELSE /\ readerPc' = [readerPc EXCEPT ![c] = "done"]
                     /\ UNCHANGED <<mailbox, arrived, replies>>
           ELSE \* ReadCommandResult::Invalid: values_sender.send
                IF ClientOpen(c)
                THEN /\ replies' = [replies EXCEPT
                           ![c] = Send(@, Item(<<SimpleError(res.err)>>, "invalid", 0))]
                     /\ UNCHANGED <<readerPc, mailbox, arrived>>
                ELSE /\ readerPc' = [readerPc EXCEPT ![c] = "done"]
                     /\ UNCHANGED <<mailbox, arrived, replies>>


RECURSIVE SumLen(_, _)
SumLen(f, S) ==
    IF S = {} THEN 0
    ELSE LET x == CHOOSE y \in S : TRUE IN Len(f[x]) + SumLen(f, S \ {x})

NumAdds == Cardinality({i \in DOMAIN arrived : arrived[i].type = "AddReplica"})

\* how much of each kind of event a workload holds
AcceptLimit ==
    CASE suite = "master" -> MaxConns
      [] suite = "replica" -> MaxReplicaConns
      [] suite = "roster" -> MaxRosterConns
      [] suite = "wait" -> MaxWaitConns
      [] suite = "info" -> MaxInfoConns
      [] suite = "frame" -> MaxFrameConns
      [] suite = "listener" -> MaxListenConns
      [] suite = "db" -> MaxDbConns
      [] suite = "errors" -> MaxErrConns
      [] OTHER -> 0

ReadLimit ==
    CASE suite = "master" -> MaxReads
      [] suite = "replica" -> MaxReplicaReads
      [] suite = "roster" -> MaxRosterReads
      [] suite = "wait" -> MaxWaitReads
      [] suite = "info" -> MaxInfoReads
      [] suite = "frame" -> MaxFrameReads
      [] suite = "listener" -> MaxListenReads
      [] suite = "db" -> MaxDbReads
      [] suite = "errors" -> MaxErrReads
      [] OTHER -> 0

AddLimit ==
    CASE suite = "roster" -> MaxRosterAdds
      [] suite = "wait" -> MaxWaitAdds
      [] suite \in {"master", "replica"} -> MaxAdds
      [] OTHER -> 0

(***************************************************************************)
(* Initial state: after server::start and listener::start have returned.   *)
(* On a master replication::start has already sent Ok on the one-shot; on  *)
(* a replica the replication task is about to connect.                     *)
(***************************************************************************)
Pc(phase, i) == [phase |-> phase, i |-> i]

InitWorkload(r, s) ==
    /\ suite = s
    /\ listenerPc = "run"
    /\ wirePc = "idle"
    /\ wireIn = <<>>
    /\ wireBytes = <<>>
    /\ wireFills = <<>>
    /\ wireOut = <<>>
    /\ role = r
    /\ port \in Ports
    /\ now = 0
    /\ initPc = IF role = "replica" THEN Pc("connect", 0) ELSE Pc("none", 0)
    /\ initResult = IF role = "replica" THEN "none" ELSE "ok"
    /\ hsLog = <<>>
    /\ queuedAtInit = 0
    /\ upPc = "none"
    /\ upSock = "none"
    /\ upQueue = <<>>
    /\ upWriting = NoItem
    /\ upWPc = "none"
    /\ upOut = <<>>
    /\ upRead = <<>>
    /\ blackHole = 0
    /\ actorPc = "init"
    /\ mailbox = <<>>
    /\ arrived = <<>>
    /\ handled = <<>>
    /\ execLog = <<>>
    /\ database = [k \in {} |-> Entry("", <<>>, 0)]
    /\ replicas = <<>>
    /\ removed = {}
    /\ offset = 0
    /\ readerPc = [c \in Conns |-> "idle"]
    /\ writerPc = [c \in Conns |-> "idle"]
    /\ sock = [c \in Conns |-> "closed"]
    /\ replies = [c \in Conns |-> <<>>]
    /\ writing = [c \in Conns |-> NoItem]
    /\ out = [c \in Conns |-> <<>>]
    /\ readLog = [c \in Conns |-> <<>>]

InitRole(r) == InitWorkload(r, r)

Init == InitRole("master")
InitReplica == InitRole("replica")

clockVars == <<now>>
optVars == <<role, port>>
envVars == <<suite, listenerPc>>
wireVars == <<wirePc, wireIn, wireBytes, wireFills, wireOut>>
initVars == <<initPc, initResult, hsLog, queuedAtInit>>
upVars == <<upPc, upSock, upQueue, upWriting, upWPc, upOut, upRead, blackHole>>
actorVars == <<actorPc, handled, execLog, database, replicas, removed, offset>>
connVars == <<readerPc, writerPc, sock, replies, writing, out, readLog>>

\* Instant::now() advances
Tick ==
    /\ now < MaxTime
    /\ now' = now + 1
    /\ UNCHANGED <<optVars, envVars, wireVars, initVars, upVars, actorVars, mailbox,
                   arrived, connVars>>

(***************************************************************************)
(* The listener and the connection duplex: listener.rs.                    *)
(***************************************************************************)
\* listen, lines 21-32, and handle_client, lines 43-53: the next connection is
\* accepted and its reader and writer tasks are spawned
Accept(c) ==
    /\ listenerPc = "run"
    /\ sock[c] = "closed"
    /\ \A d \in Conns : d < c => sock[d] # "closed"
    /\ c <= AcceptLimit
    /\ sock' = [sock EXCEPT ![c] = "open"]
    /\ readerPc' = [readerPc EXCEPT ![c] = "run"]
    /\ writerPc' = [writerPc EXCEPT ![c] = "run"]
    /\ UNCHANGED <<clockVars, optVars, envVars, wireVars, initVars, upVars, actorVars, mailbox, arrived,
                   replies, writing, out, readLog>>

\* listen, lines 33-40: accept() returns Err; the loop is left and the task
\* returns Ok(()), the tasks it spawned being left to themselves
AcceptError ==
    /\ suite = "listener"
    /\ listenerPc = "run"
    /\ listenerPc' = "done"
    /\ UNCHANGED <<suite, clockVars, optVars, wireVars, initVars, upVars, actorVars, mailbox,
                   arrived, connVars>>

\* the peer closes the connection, or the network drops it
Drop(c) ==
    /\ sock[c] = "open"
    /\ Cardinality({d \in Conns : sock[d] = "dropped"}) < MaxDrops
    /\ sock' = [sock EXCEPT ![c] = "dropped"]
    /\ UNCHANGED <<clockVars, optVars, envVars, wireVars, initVars, upVars, actorVars, mailbox, arrived,
                   readerPc, writerPc, replies, writing, out, readLog>>

\* handle_client_reader, one turn of the loop with a value read from the socket
\* or from what the BufReader had buffered before the socket was dropped
ReaderRead(c) ==
    /\ readerPc[c] = "run"
    /\ sock[c] # "closed"
    /\ SumLen(readLog, Conns) < ReadLimit
    /\ \E input \in ClientInputs : ReaderTurn(c, read_command(input))
    /\ UNCHANGED <<clockVars, optVars, envVars, wireVars, initVars, upVars, actorVars, writerPc, sock,
                   writing, out>>

\* handle_client_reader, ReadCommandResult::Stop: end of input or an I/O error
ReaderStop(c) ==
    /\ readerPc[c] = "run"
    /\ sock[c] = "dropped"
    /\ readerPc' = [readerPc EXCEPT ![c] = "done"]
    /\ UNCHANGED <<clockVars, optVars, envVars, wireVars, initVars, upVars, actorVars, mailbox, arrived,
                   writerPc, sock, replies, writing, out, readLog>>

\* handle_client_writer, line 99: values_receiver.recv() returns Some(values)
WriterRecv(c) ==
    /\ writerPc[c] = "run"
    /\ writing[c].values = <<>>
    /\ replies[c] # <<>>
    /\ writing' = [writing EXCEPT ![c] = Recv(replies[c])]
    /\ replies' = [replies EXCEPT ![c] = Tail(@)]
    /\ UNCHANGED <<clockVars, optVars, envVars, wireVars, initVars, upVars, actorVars, mailbox, arrived,
                   readerPc, writerPc, sock, out, readLog>>

\* handle_client_writer, lines 100-105: one value of the list is written, or the
\* write fails and the task returns, dropping the receiver and what it holds
WriterWrite(c) ==
    /\ writerPc[c] = "run"
    /\ writing[c].values # <<>>
    /\ IF sock[c] = "open"
       THEN /\ out' = [out EXCEPT ![c] = Append(@,
                         Item(<<Head(writing[c].values)>>, writing[c].origin, writing[c].re))]
            /\ writing' = [writing EXCEPT ![c].values = Tail(@)]
            /\ UNCHANGED <<writerPc, replies>>
       ELSE /\ writerPc' = [writerPc EXCEPT ![c] = "done"]
            /\ writing' = [writing EXCEPT ![c] = NoItem]
            /\ replies' = [replies EXCEPT ![c] = <<>>]
            /\ UNCHANGED out
    /\ UNCHANGED <<clockVars, optVars, envVars, wireVars, initVars, upVars, actorVars, mailbox, arrived,
                   readerPc, sock, readLog>>

\* handle_client_writer, line 99: recv() returns None once the queue is empty and
\* every sender has been dropped
WriterClose(c) ==
    /\ writerPc[c] = "run"
    /\ writing[c].values = <<>>
    /\ replies[c] = <<>>
    /\ ~SendersAlive(c)
    /\ writerPc' = [writerPc EXCEPT ![c] = "done"]
    /\ UNCHANGED <<clockVars, optVars, envVars, wireVars, initVars, upVars, actorVars, mailbox, arrived,
                   readerPc, sock, replies, writing, out, readLog>>

\* ServerHandle::add_replica, called for connection c with its peer address and
\* a clone of its reply-queue sender; a connection is registered at most once
add_replica(c) ==
    /\ readerPc[c] = "run"
    /\ actorPc # "stopped"
    /\ NumAdds < AddLimit
    /\ \A i \in DOMAIN arrived : arrived[i].type = "AddReplica" => arrived[i].address # c
    /\ mailbox' = ServerSend(mailbox, AddReplica(c, Client(c)))
    /\ arrived' = Append(arrived, AddReplica(c, Client(c)))
    /\ UNCHANGED <<clockVars, optVars, envVars, wireVars, initVars, upVars, actorVars, connVars>>

(***************************************************************************)
(* The command actor: server/mod.rs, command_loop.                         *)
(***************************************************************************)
\* an actor that does not wait for the one-shot
ReplInitNoWait == TRUE

\* command_loop, line 80: repl_init.await completes once the one-shot holds a value
ReplInitReady == initResult # "none"

\* command_loop, lines 80-88: Ok starts the loop; Err returns, which drops the
\* receiver of the server channel and the messages queued on it
ActorStart ==
    /\ actorPc = "init"
    /\ ReplInitReady
    /\ IF initResult = "err"
       THEN /\ actorPc' = "stopped"
            /\ mailbox' = <<>>
       ELSE /\ actorPc' = "run"
            /\ UNCHANGED mailbox
    /\ UNCHANGED <<clockVars, optVars, envVars, wireVars, initVars, upVars, handled, execLog, database,
                   replicas, removed, offset, arrived, connVars>>

ExecEntry(message, response, replied, fanned) ==
    [src |-> IF message.reply_to.kind = "client" THEN message.reply_to
             ELSE Upstream,
     seq |-> message.seq, command |-> message.command, at |-> now,
     response |-> response, replied |-> replied, fanned |-> fanned]

\* command_loop, lines 96-104: ProcessCommand
ActorProcessCommand ==
    /\ actorPc = "run"
    /\ mailbox # <<>>
    /\ Recv(mailbox).type = "ProcessCommand"
    /\ LET message == Recv(mailbox)
           command == message.command
           reply_to == message.reply_to
           re == Len(execLog) + 1
           replied == TargetOpen(reply_to)
       IN  \E o \in handle(command, database, offset, now, role, replicas) :
             LET item == Item(o.response, "reply", re)
                 queues == IF replied /\ reply_to.kind = "client"
                           THEN [replies EXCEPT ![reply_to.id] = Send(@, item)]
                           ELSE replies
                 fanned == ShouldReplicate(replied)
                 repl == IF fanned
                         THEN replicate(command, replicas, queues, re)
                         ELSE [replicas |-> replicas, queues |-> queues, removed |-> {}]
             IN  /\ database' = o.data
                 /\ offset' = OffsetAfter(offset, command)
                 /\ upQueue' = IF replied /\ reply_to.kind = "upstream"
                               THEN Send(upQueue, item) ELSE upQueue
                 /\ blackHole' = IF reply_to.kind = "blackhole"
                                 THEN blackHole + 1 ELSE blackHole
                 /\ replies' = repl.queues
                 /\ replicas' = repl.replicas
                 /\ removed' = removed \cup repl.removed
                 /\ execLog' = Append(execLog,
                                 ExecEntry(message, o.response, replied,
                                           fanned /\ is_write(command)))
                 /\ handled' = Append(handled, message)
                 /\ mailbox' = Tail(mailbox)
    /\ UNCHANGED <<clockVars, optVars, envVars, wireVars, initVars, upPc, upSock, upWriting, upWPc, upOut,
                   upRead, actorPc, arrived, readerPc, writerPc, sock, writing, out,
                   readLog>>

\* command_loop, lines 105-110: AddReplica
ActorAddReplica ==
    /\ actorPc = "run"
    /\ mailbox # <<>>
    /\ Recv(mailbox).type = "AddReplica"
    /\ LET message == Recv(mailbox)
       IN  /\ replicas' = add(replicas, message.address, message.reply_to.id)
           /\ handled' = Append(handled, message)
           /\ mailbox' = Tail(mailbox)
    /\ UNCHANGED <<clockVars, optVars, envVars, wireVars, initVars, upVars, actorPc, execLog, database,
                   removed, offset, arrived, connVars>>

(***************************************************************************)
(* The replica side: server/replication.rs, start, init, replication_loop. *)
(***************************************************************************)
\* a handshake that announces its capabilities before its port
commands_swapped(p) ==
    << command_str("PING", <<>>),
       command_str("REPLCONF", <<"capa", "psync2">>),
       command_str("REPLCONF", <<"listening-port", ToString(p)>>),
       command_str("PSYNC", <<"?", "-1">>) >>

\* init, lines 63-69
commands(p) ==
    << command_str("PING", <<>>),
       command_str("REPLCONF", <<"listening-port", ToString(p)>>),
       command_str("REPLCONF", <<"capa", "psync2">>),
       command_str("PSYNC", <<"?", "-1">>) >>

Step(op, v) == [op |-> op, v |-> v]

\* start, lines 29-31: init returned Err; the error goes to the one-shot and the
\* task ends, closing the upstream socket
InitFailed ==
    /\ initPc' = Pc("failed", initPc.i)
    /\ initResult' = "err"
    /\ queuedAtInit' = Len(arrived)
    /\ upSock' = "none"
    /\ UNCHANGED <<hsLog, upPc, upWPc>>

\* init, lines 71-81: after the read of a reply, the next command or the snapshot
AfterRead(i) == IF i < Len(commands(port)) THEN Pc("write", i + 1) ELSE Pc("read_bytes", i)

\* init, lines 55-57: TcpStream::connect
InitConnect ==
    /\ initPc.phase = "connect"
    /\ \E connected \in BOOLEAN :
         IF connected
         THEN /\ upSock' = "open"
              /\ initPc' = Pc("write", 1)
              /\ hsLog' = Append(hsLog, Step("connect", <<>>))
              /\ UNCHANGED <<initResult, queuedAtInit, upPc, upWPc>>
         ELSE InitFailed
    /\ UNCHANGED <<clockVars, optVars, envVars, wireVars, upQueue, upWriting, upOut, upRead, blackHole,
                   actorVars, mailbox, arrived, connVars>>

\* init, lines 72-75: writer.write(&command)
InitWrite ==
    /\ initPc.phase = "write"
    /\ IF upSock = "open"
       THEN /\ hsLog' = Append(hsLog, Step("write", commands(port)[initPc.i].v))
            /\ initPc' = Pc("read", initPc.i)
            /\ UNCHANGED <<initResult, queuedAtInit, upSock, upPc, upWPc>>
       ELSE InitFailed
    /\ UNCHANGED <<clockVars, optVars, envVars, wireVars, upQueue, upWriting, upOut, upRead, blackHole,
                   actorVars, mailbox, arrived, connVars>>

\* init, lines 77-80: reader.read(); any error aborts
InitRead ==
    /\ initPc.phase = "read"
    /\ \E parsable \in BOOLEAN :
         IF upSock = "open" /\ parsable
         THEN /\ hsLog' = Append(hsLog, Step("read", <<>>))
              /\ initPc' = AfterRead(initPc.i)
              /\ UNCHANGED <<initResult, queuedAtInit, upSock, upPc, upWPc>>
         ELSE InitFailed
    /\ UNCHANGED <<clockVars, optVars, envVars, wireVars, upQueue, upWriting, upOut, upRead, blackHole,
                   actorVars, mailbox, arrived, connVars>>

\* init, lines 83-90, and start, lines 32-34: reader.read_bytes(); on success Ok
\* goes to the one-shot and replication_loop spawns its two tasks
InitReadBytes ==
    /\ initPc.phase = "read_bytes"
    /\ \E parsable \in BOOLEAN :
         IF upSock = "open" /\ parsable
         THEN /\ hsLog' = Append(hsLog, Step("read_bytes", <<>>))
              /\ initPc' = Pc("done", initPc.i)
              /\ initResult' = "ok"
              /\ queuedAtInit' = Len(arrived)
              /\ upPc' = "run"
              /\ upWPc' = "run"
              /\ UNCHANGED upSock
         ELSE InitFailed
    /\ UNCHANGED <<clockVars, optVars, envVars, wireVars, upQueue, upWriting, upOut, upRead, blackHole,
                   actorVars, mailbox, arrived, connVars>>

\* the master closes the replication connection, or the network drops it
UpDrop ==
    /\ upSock = "open"
    /\ upSock' = "dropped"
    /\ UNCHANGED <<clockVars, optVars, envVars, wireVars, initVars, upPc, upQueue, upWriting, upWPc, upOut,
                   upRead, blackHole, actorVars, mailbox, arrived, connVars>>

\* a streaming loop that answers every command on the real channel
ReplyToReal(command) == Upstream

\* replication_loop, lines 126-134: the channel the reply is sent to
ReplyTo(command) ==
    IF command.name = "Replconf" /\ to_uppercase(command.args[1]) = "GETACK"
    THEN Upstream
    ELSE BlackHole

\* the match of replication_loop, lines 124-150, on a result of CommandReader::read
\* that is not Stop
UpTurn(res) ==
    LET message == ProcessCommand(res.cmd, ReplyTo(res.cmd), Len(upRead) + 1)
    IN  /\ upRead' = Append(upRead, ReadEntry(res))
        /\ IF res.ok
           THEN IF actorPc # "stopped"
                THEN /\ mailbox' = ServerSend(mailbox, message)
                     /\ arrived' = Append(arrived, message)
                     /\ UNCHANGED upPc
                ELSE /\ upPc' = "done"
                     /\ UNCHANGED <<mailbox, arrived>>
           ELSE \* CommandReadError::Invalid is logged and the loop goes on
                UNCHANGED <<upPc, mailbox, arrived>>

\* replication_loop, lines 123-151, one turn with a value read from the upstream
UpRead ==
    /\ upPc = "run"
    /\ upSock = "open"
    /\ Len(upRead) < MaxUpReads
    /\ \E input \in UpInputs : UpTurn(read_command(input))
    /\ UNCHANGED <<clockVars, optVars, envVars, wireVars, initVars, upSock, upQueue, upWriting, upWPc,
                   upOut, blackHole, actorVars, connVars>>

\* replication_loop, lines 144-149: CommandReadError::Stop
UpStop ==
    /\ upPc = "run"
    /\ upSock = "dropped"
    /\ upPc' = "done"
    /\ UNCHANGED <<clockVars, optVars, envVars, wireVars, initVars, upSock, upQueue, upWriting, upWPc,
                   upOut, upRead, blackHole, actorVars, mailbox, arrived, connVars>>

\* replication_loop, line 113: the writer task receives a reply list
UpWriterRecv ==
    /\ upWPc = "run"
    /\ upWriting.values = <<>>
    /\ upQueue # <<>>
    /\ upWriting' = Recv(upQueue)
    /\ upQueue' = Tail(upQueue)
    /\ UNCHANGED <<clockVars, optVars, envVars, wireVars, initVars, upPc, upSock, upWPc, upOut, upRead,
                   blackHole, actorVars, mailbox, arrived, connVars>>

\* replication_loop, lines 114-119: the writer task writes one value, or fails
UpWriterWrite ==
    /\ upWPc = "run"
    /\ upWriting.values # <<>>
    /\ IF upSock = "open"
       THEN /\ upOut' = Append(upOut,
                   Item(<<Head(upWriting.values)>>, upWriting.origin, upWriting.re))
            /\ upWriting' = [upWriting EXCEPT !.values = Tail(@)]
            /\ UNCHANGED <<upWPc, upQueue>>
       ELSE /\ upWPc' = "done"
            /\ upWriting' = NoItem
            /\ upQueue' = <<>>
            /\ UNCHANGED upOut
    /\ UNCHANGED <<clockVars, optVars, envVars, wireVars, initVars, upPc, upSock, upRead, blackHole,
                   actorVars, mailbox, arrived, connVars>>

\* replication_loop, line 113: recv() returns None once every sender is dropped
UpWriterClose ==
    /\ upWPc = "run"
    /\ upWriting.values = <<>>
    /\ upQueue = <<>>
    /\ upPc = "done"
    /\ ~\E i \in DOMAIN mailbox : mailbox[i].reply_to = Upstream
    /\ upWPc' = "done"
    /\ UNCHANGED <<clockVars, optVars, envVars, wireVars, initVars, upPc, upSock, upQueue, upWriting, upOut,
                   upRead, blackHole, actorVars, mailbox, arrived, connVars>>

(***************************************************************************)
(* The specification.                                                      *)
(***************************************************************************)
\* the tasks of a master
Next ==
    \/ \E c \in Conns : Accept(c)
    \/ \E c \in Conns : Drop(c)
    \/ \E c \in Conns : ReaderRead(c)
    \/ \E c \in Conns : ReaderStop(c)
    \/ \E c \in Conns : WriterRecv(c)
    \/ \E c \in Conns : WriterWrite(c)
    \/ \E c \in Conns : WriterClose(c)
    \/ \E c \in Conns : add_replica(c)
    \/ ActorStart
    \/ ActorProcessCommand
    \/ ActorAddReplica

Spec == Init /\ [][Next]_vars

\* the tasks of a replica: the replication task, the actor and the client tasks
NextReplica ==
    \/ InitConnect
    \/ InitWrite
    \/ InitRead
    \/ InitReadBytes
    \/ UpDrop
    \/ UpRead
    \/ UpStop
    \/ UpWriterRecv
    \/ UpWriterWrite
    \/ UpWriterClose
    \/ ActorStart
    \/ ActorProcessCommand
    \/ ActorAddReplica
    \/ \E c \in Conns : Accept(c)
    \/ \E c \in Conns : ReaderRead(c)
    \/ \E c \in Conns : WriterRecv(c)
    \/ \E c \in Conns : WriterWrite(c)
    \/ \E c \in Conns : add_replica(c)

SpecReplica == InitReplica /\ [][NextReplica]_vars

\* a server of either role with its tasks
InitAnyRole == \E r \in {"master", "replica"} : InitRole(r)

NextAnyRole ==
    \/ InitConnect
    \/ InitWrite
    \/ InitRead
    \/ InitReadBytes
    \/ UpDrop
    \/ UpRead
    \/ UpStop
    \/ UpWriterRecv
    \/ UpWriterWrite
    \/ UpWriterClose
    \/ ActorStart
    \/ ActorProcessCommand
    \/ ActorAddReplica
    \/ \E c \in Conns :
          \/ Accept(c)
          \/ (role = "master" /\ Drop(c))
          \/ ReaderRead(c)
          \/ (role = "master" /\ ReaderStop(c))
          \/ WriterRecv(c)
          \/ WriterWrite(c)
          \/ (role = "master" /\ WriterClose(c))
          \/ add_replica(c)

SpecAnyRole == InitAnyRole /\ [][NextAnyRole]_vars

(***************************************************************************)
(* The roster workload: a master with three connections, each of which may *)
(* be registered as a replica, and clients that send SET.                  *)
(***************************************************************************)
InitRoster == InitWorkload("master", "roster")

NextRoster ==
    \/ \E c \in Conns :
          \/ Accept(c)
          \/ Drop(c)
          \/ ReaderRead(c)
          \/ ReaderStop(c)
          \/ WriterRecv(c)
          \/ WriterWrite(c)
          \/ WriterClose(c)
          \/ add_replica(c)
    \/ ActorStart
    \/ ActorProcessCommand
    \/ ActorAddReplica

SpecRoster == InitRoster /\ [][NextRoster]_vars

\* a master whose clients send SET and WAIT while connections are registered in
\* the roster and dropped
InitWait == InitWorkload("master", "wait")

SpecWait == InitWait /\ [][Next]_vars

\* a server of either role, after a handshake on a replica, whose client sends
\* INFO and PING
InitInfo == \E r \in {"master", "replica"} : InitWorkload(r, "info")

NextInfo ==
    \/ InitConnect
    \/ InitWrite
    \/ InitRead
    \/ InitReadBytes
    \/ ActorStart
    \/ ActorProcessCommand
    \/ \E c \in Conns :
          \/ Accept(c)
          \/ ReaderRead(c)
          \/ WriterRecv(c)
          \/ WriterWrite(c)

SpecInfo == InitInfo /\ [][NextInfo]_vars

\* a master whose listener meets a fatal accept error while connections are
\* being served
InitListener == InitWorkload("master", "listener")

NextListener ==
    \/ AcceptError
    \/ ActorStart
    \/ ActorProcessCommand
    \/ \E c \in Conns :
          \/ Accept(c)
          \/ Drop(c)
          \/ ReaderRead(c)
          \/ ReaderStop(c)
          \/ WriterRecv(c)
          \/ WriterWrite(c)
          \/ WriterClose(c)

SpecListener == InitListener /\ [][NextListener]_vars

(***************************************************************************)
(* The keyspace workload: a master with one client that sends SET, with    *)
(* and without PX, and GET while the clock advances.                       *)
(***************************************************************************)
InitDb == InitWorkload("master", "db")

NextDb ==
    \/ \E c \in Conns :
          \/ Accept(c)
          \/ ReaderRead(c)
          \/ WriterRecv(c)
          \/ WriterWrite(c)
    \/ ActorStart
    \/ ActorProcessCommand
    \/ Tick

SpecDb == InitDb /\ [][NextDb]_vars

\* the same with two keys, both set with an expiry
InitFrame == InitWorkload("master", "frame")

SpecFrame == InitFrame /\ [][NextDb]_vars

(***************************************************************************)
(* Helpers of the properties.                                              *)
(***************************************************************************)
IsPrefix(a, b) == Len(a) <= Len(b) /\ a = SubSeq(b, 1, Len(a))

Indexed(s) == [i \in 1..Len(s) |-> [i |-> i, e |-> s[i]]]

\* collapses runs of equal neighbours
RECURSIVE Dedup(_)
Dedup(s) ==
    IF Len(s) <= 1 THEN s
    ELSE IF s[1] = s[2] THEN Dedup(Tail(s))
    ELSE <<s[1]>> \o Dedup(Tail(s))

\* the indices in execLog of the commands of one source, in execution order
ExecIdx(src) ==
    LET sel == SelectSeq(Indexed(execLog), LAMBDA x : x.e.src = src)
    IN  [k \in 1..Len(sel) |-> sel[k].i]

\* the indices in execLog of the commands of one source whose reply was sent
RepliedIdx(src) ==
    LET sel == SelectSeq(Indexed(execLog), LAMBDA x : x.e.src = src /\ x.e.replied)
    IN  [k \in 1..Len(sel) |-> sel[k].i]

\* the positions in a read log of the values that were valid commands
ValidIdx(log) ==
    LET sel == SelectSeq(Indexed(log), LAMBDA x : x.e.ok)
    IN  [k \in 1..Len(sel) |-> sel[k].i]

\* the commands whose replies appear in a sequence of queue items, in order
ReplyRes(items) ==
    LET sel == SelectSeq(items, LAMBDA x : x.origin = "reply")
    IN  Dedup([k \in 1..Len(sel) |-> sel[k].re])

\* everything headed for connection c's socket: written, being written, queued
Delivered(c) ==
    out[c] \o (IF writing[c].values # <<>> THEN <<writing[c]>> ELSE <<>>) \o replies[c]

(***************************************************************************)
(* C1: the commands read from one client connection are executed in the    *)
(* order they were read, and their reply lists are queued on the           *)
(* connection's reply queue and written by its writer task in that same    *)
(* order, whatever the other connections submit in between.                *)
(***************************************************************************)
C1_PerConnectionOrder ==
    \A c \in Conns :
      LET mine == ExecIdx(Client(c))
          want == RepliedIdx(Client(c))
      IN  /\ IsPrefix([k \in 1..Len(mine) |-> execLog[mine[k]].seq], ValidIdx(readLog[c]))
          /\ \A k \in 1..Len(mine) :
                execLog[mine[k]].command = readLog[c][execLog[mine[k]].seq].command
          /\ IsPrefix(ReplyRes(out[c]), want)
          /\ writerPc[c] = "run" => ReplyRes(Delivered(c)) = want

\* two replies written to one connection, with another connection's command
\* executed between the two commands
C1_Witness ==
    \E c \in Conns : \E i, j, k \in DOMAIN execLog :
      /\ i < j /\ j < k
      /\ execLog[i].src = Client(c) /\ execLog[k].src = Client(c)
      /\ execLog[j].src # Client(c)
      /\ \E a, b \in DOMAIN out[c] : a < b /\ out[c][a].re = i /\ out[c][b].re = k

(***************************************************************************)
(* C2: every SET the master commits is enqueued exactly once on the reply  *)
(* queue of every replica in the roster at that moment (here: every one    *)
(* whose queue is still open), and each replica's queue holds the writes   *)
(* in commit order.                                                        *)
(***************************************************************************)
FanoutCount(items, re) ==
    Cardinality({i \in DOMAIN items : items[i].origin = "fanout" /\ items[i].re = re})

FanoutRes(items) ==
    LET sel == SelectSeq(items, LAMBDA x : x.origin = "fanout")
    IN  [k \in 1..Len(sel) |-> sel[k].re]

StrictlyIncreasing(s) == \A i, j \in DOMAIN s : i < j => s[i] < s[j]

ExecStep == Len(execLog') = Len(execLog) + 1
LastExec == execLog'[Len(execLog')]

UpstreamSizes ==
    LET sel == SelectSeq(upRead, LAMBDA x : x.ok)
    IN  SumSeq([k \in 1..Len(sel) |-> sel[k].command.size])

UpstreamApplied ==
    \A i \in DOMAIN mailbox : mailbox[i].reply_to.kind = "client"

C3_Original == (role = "replica" /\ UpstreamApplied) => offset = UpstreamSizes

(***************************************************************************)
(* C4: the ACK produced for a REPLCONF GETACK reports the cumulative wire  *)
(* size of all commands processed up to and including that GETACK.         *)
(* As amended: the offset is advanced by a command's wire size after the   *)
(* reply to that command is built, so the ACK reports the cumulative wire  *)
(* size of all commands the actor processed before that GETACK, the        *)
(* GETACK itself not included.                                             *)
(***************************************************************************)
UpDelivered ==
    upOut \o (IF upWriting.values # <<>> THEN <<upWriting>> ELSE <<>>) \o upQueue

ProcessedSize(n) == SumSeq([k \in 1..n |-> execLog[k].command.size])

IsGetack(command) ==
    command.name = "Replconf" /\ command.args[1] \in {"GETACK", "getack", "GetAck"}

RawRes(items) == [k \in 1..Len(items) |-> items[k].re]

GetackIdx ==
    LET sel == SelectSeq(Indexed(execLog),
                   LAMBDA x : x.e.src = Upstream /\ IsGetack(x.e.command) /\ x.e.replied)
    IN  [k \in 1..Len(sel) |-> sel[k].i]

DiscardedCount ==
    Cardinality({i \in DOMAIN execLog :
                    execLog[i].src = Upstream /\ ~IsGetack(execLog[i].command)})

C5_RepliesOfReplica ==
    /\ \A i \in DOMAIN UpDelivered :
          LET x == UpDelivered[i]
          IN  /\ x.origin = "reply"
              /\ execLog[x.re].src = Upstream
              /\ IsGetack(execLog[x.re].command)
              /\ Len(x.values) = 1
              /\ x.values[1].t = "Array"
              /\ SubSeq(x.values[1].v, 1, 2) = <<"REPLCONF", "ACK">>
    /\ IsPrefix(RawRes(upOut), GetackIdx)
    /\ upWPc = "run" => RawRes(UpDelivered) = GetackIdx
    /\ blackHole = DiscardedCount
    /\ \A c \in Conns : \A i \in DOMAIN Delivered(c) :
          Delivered(c)[i].origin = "reply" => execLog[Delivered(c)[i].re].src = Client(c)

\* a streamed SET was applied silently and a lower-case getack was answered upstream
C5_Witness ==
    /\ blackHole >= 1
    /\ \E i \in DOMAIN upOut : execLog[upOut[i].re].command.args[1] = "getack"

(***************************************************************************)
(* C6: the handshake writes PING, REPLCONF listening-port <own port>,      *)
(* REPLCONF capa psync2 and PSYNC ? -1 in that order, reads one value      *)
(* after each, then reads one snapshot frame; a failure at any step ends   *)
(* it with an error and nothing further is done on the connection.         *)
(***************************************************************************)
HandshakeExpected ==
    << Step("connect", <<>>),
       Step("write", <<"PING">>), Step("read", <<>>),
       Step("write", <<"REPLCONF", "listening-port", ToString(port)>>), Step("read", <<>>),
       Step("write", <<"REPLCONF", "capa", "psync2">>), Step("read", <<>>),
       Step("write", <<"PSYNC", "?", "-1">>), Step("read", <<>>),
       Step("read_bytes", <<>>) >>

C6_State ==
    /\ IsPrefix(hsLog, HandshakeExpected)
    /\ initResult = "ok" => hsLog = HandshakeExpected
    /\ upPc # "none" => hsLog = HandshakeExpected
    /\ initPc.phase = "failed" =>
          initResult = "err" /\ upPc = "none" /\ upRead = <<>> /\ upOut = <<>>

C6_Handshake ==
    /\ []C6_State
    /\ [][initPc.phase = "failed" => hsLog' = hsLog /\ initPc' = initPc]_vars

C6_Witness == initPc.phase = "done" /\ hsLog = HandshakeExpected /\ upPc = "run"

(***************************************************************************)
(* C7: the actor handles no message before the replication task has sent   *)
(* its result on the one-shot; after an error it never handles any; after  *)
(* success it handles the messages, those queued during the handshake      *)
(* included, in arrival order.                                             *)
(***************************************************************************)
C7_InitBarrier ==
    /\ initResult # "ok" =>
          /\ handled = <<>> /\ execLog = <<>> /\ replicas = <<>> /\ offset = 0
          /\ \A c \in Conns : \A i \in DOMAIN Delivered(c) :
                Delivered(c)[i].origin = "invalid"
    /\ initResult = "err" => actorPc \in {"init", "stopped"}
    /\ actorPc # "stopped" => handled \o mailbox = arrived

\* a command and a registration that were queued during the handshake have both
\* been handled after it succeeded
C7_Witness ==
    /\ initResult = "ok"
    /\ Len(handled) >= queuedAtInit
    /\ \E i, j \in 1..queuedAtInit :
          arrived[i].type = "AddReplica" /\ arrived[j].type = "ProcessCommand"

(***************************************************************************)
(* C8: when the reader task of a connection reads PSYNC it sends, besides  *)
(* the ProcessCommand message, an AddReplica message with the connection's *)
(* peer address and reply-queue sender.                                    *)
(***************************************************************************)
C8_Original ==
    [][ \A c \in Conns :
          (/\ Len(readLog'[c]) = Len(readLog[c]) + 1
           /\ readLog'[c][Len(readLog'[c])].command.name = "Psync")
          => \E i \in DOMAIN arrived' :
                i > Len(arrived) /\ arrived'[i] = AddReplica(c, Client(c)) ]_vars

(***************************************************************************)
(* C9: for each PSYNC the master handles, the issuing connection's reply   *)
(* queue receives one reply list of two values, the simple string          *)
(* FULLRESYNC <id> 0 and then the BulkBytes snapshot; the writer task      *)
(* writes the two one after the other with nothing in between; no other    *)
(* command produces a BulkBytes value.                                     *)
(***************************************************************************)
IsFullresync(value) ==
    /\ value.t = "SimpleString"
    /\ value.v = <<"FULLRESYNC 8371b4fb1155b71f4a04d3e1bc3e18c4a990aeeb 0">>

IsSnapshot(value) == value.t = "BulkBytes"

HasSnapshot(item) == \E k \in DOMAIN item.values : IsSnapshot(item.values[k])

IsPsyncReply(item) ==
    item.origin = "reply" /\ execLog[item.re].command.name = "Psync"

\* how many reply lists of the command at index re connection c holds or has written
ListCount(c, re) ==
    Cardinality({i \in DOMAIN replies[c] :
                    replies[c][i].origin = "reply" /\ replies[c][i].re = re})
    + (IF \/ \E i \in DOMAIN out[c] : out[c][i].origin = "reply" /\ out[c][i].re = re
          \/ (writing[c].values # <<>> /\ writing[c].origin = "reply" /\ writing[c].re = re)
       THEN 1 ELSE 0)

C9_PsyncReply ==
    \A c \in Conns :
      /\ \A i \in DOMAIN replies[c] :
            LET x == replies[c][i]
            IN  /\ HasSnapshot(x) <=> IsPsyncReply(x)
                /\ IsPsyncReply(x) =>
                      /\ Len(x.values) = 2
                      /\ IsFullresync(x.values[1])
                      /\ IsSnapshot(x.values[2])
                      /\ execLog[x.re].src = Client(c)
      /\ \A re \in DOMAIN execLog :
            (/\ execLog[re].command.name = "Psync"
             /\ execLog[re].src = Client(c)
             /\ writerPc[c] = "run") => ListCount(c, re) = 1
      /\ HasSnapshot(writing[c]) =>
            /\ IsPsyncReply(writing[c])
            /\ \/ writing[c].values = psync
               \/ /\ Len(writing[c].values) = 1
                  /\ out[c] # <<>>
                  /\ out[c][Len(out[c])].re = writing[c].re
                  /\ IsFullresync(out[c][Len(out[c])].values[1])
      /\ \A j \in DOMAIN out[c] :
            LET x == out[c][j]
            IN  /\ IsSnapshot(x.values[1]) =>
                      /\ IsPsyncReply(x)
                      /\ j > 1
                      /\ out[c][j - 1].re = x.re
                      /\ IsFullresync(out[c][j - 1].values[1])
                /\ IsPsyncReply(x) /\ IsFullresync(x.values[1]) =>
                      \/ /\ j < Len(out[c])
                         /\ out[c][j + 1].re = x.re
                         /\ IsSnapshot(out[c][j + 1].values[1])
                      \/ /\ j = Len(out[c])
                         /\ \/ writerPc[c] = "done"
                            \/ /\ writing[c].re = x.re
                               /\ Len(writing[c].values) = 1
                               /\ IsSnapshot(writing[c].values[1])

\* a registered replica has been written FULLRESYNC, the snapshot and a fanned-out
\* write
C9_Witness ==
    \E c \in Conns : \E i, j \in DOMAIN out[c] :
      /\ IsSnapshot(out[c][i].values[1])
      /\ out[c][j].origin = "fanout"

(***************************************************************************)
(* C10: when a registered replica's socket has been dropped, the first     *)
(* fan-out attempted afterwards removes that replica from the roster.      *)
(* As amended: when a registered replica's writer task has exited (a write *)
(* to the dropped socket failed, which drops the receiver of its reply     *)
(* queue), the first fan-out attempted afterwards removes that replica.    *)
(***************************************************************************)
InRoster(rs, a) == \E i \in DOMAIN rs : rs[i].address = a

FanoutStep == ExecStep /\ LastExec.fanned

OpenEntries(rs) == SelectSeq(rs, LAMBDA r : ClientOpen(r.values_sender))

EntriesOf(rs, c) == Cardinality({i \in DOMAIN rs : rs[i].values_sender = c})

C11_OnlyFailedRemoved ==
    [][ FanoutStep =>
          /\ replicas' = OpenEntries(replicas)
          /\ removed' = removed \cup
                {replicas[i].address : i \in {j \in DOMAIN replicas :
                                                ~ClientOpen(replicas[j].values_sender)}}
          /\ \A c \in Conns :
                ClientOpen(c) =>
                  FanoutCount(replies'[c], Len(execLog')) = EntriesOf(replicas, c) ]_vars

\* three replicas were registered, one of them has been removed by a fan-out,
\* and every fan-out since the third registration reached the two others, which
\* are still in the roster in the order they were registered in
AddsHandled == {p \in DOMAIN handled : handled[p].type = "AddReplica"}

ExecsBefore(p) ==
    Cardinality({q \in 1..p : handled[q].type = "ProcessCommand"})

C11_Witness ==
    /\ removed # {}
    /\ Len(replicas) = 2
    /\ replicas[1].address > replicas[2].address
    /\ Cardinality(AddsHandled) = 3
    /\ LET last == CHOOSE p \in AddsHandled : \A q \in AddsHandled : q <= p
           since == {k \in (ExecsBefore(last) + 1)..Len(execLog) : execLog[k].fanned}
       IN  /\ since # {}
           /\ \A k \in since : \A i \in DOMAIN replicas :
                 FanoutCount(Delivered(replicas[i].values_sender), k) = 1

(***************************************************************************)
(* The value codec on its own: protocol/value/writer.rs and reader.rs over *)
(* bytes.  A byte is a number 0..255, a byte string and a String are       *)
(* sequences of bytes, and the elements of an array are values.  The       *)
(* stream a BufReader reads is the sequence of its fills: fill_buf returns *)
(* what is left of the first fill and consume drops bytes from it.         *)
(***************************************************************************)

\* a value built by the constructors, with its texts as bytes and the bulk strings
\* build_command makes of the parts of an array
OnWire(value) ==
    IF value.t = "Array"
    THEN [t |-> "Array", size |-> value.size,
          v |-> [i \in DOMAIN value.v |->
                   [t |-> "BulkString", size |-> bulk_string_from_bytes(value.v[i]).size,
                    v |-> <<as_bytes(value.v[i])>>]]]
    ELSE [t |-> value.t, size |-> value.size, v |-> <<as_bytes(value.v[1])>>]

\* ValueWriter::write_simple_string
write_simple_string(val) == <<PLUS>> \o val \o CRLF

\* ValueWriter::write_simple_error
write_simple_error(val) == <<MINUS>> \o val \o CRLF

\* ValueWriter::write_integer
write_integer(val) == <<COLON>> \o i64_to_string(val) \o CRLF

\* ValueWriter::write_bulk_bytes
write_bulk_bytes(bytes) == <<DOLLAR>> \o to_string(Len(bytes)) \o CRLF \o bytes

\* ValueWriter::write_bulk_string
write_bulk_string(bytes) == write_bulk_bytes(bytes) \o CRLF

\* ValueWriter::write_null_bulk_string
write_null_bulk_string == <<DOLLAR, MINUS, 49>> \o CRLF

\* ValueWriter::write_null_array
write_null_array == <<STAR, MINUS, 49>> \o CRLF

\* ValueWriter::write and write_array: the bytes written for a value
RECURSIVE write(_)
RECURSIVE write_all(_)
write_all(values) ==
    IF values = <<>> THEN <<>> ELSE write(Head(values)) \o write_all(Tail(values))

write_array(values) == <<STAR>> \o to_string(Len(values)) \o CRLF \o write_all(values)

write(value) ==
    CASE value.t = "SimpleString" -> write_simple_string(value.v[1])
      [] value.t = "SimpleError" -> write_simple_error(value.v[1])
      [] value.t = "Integer" -> write_integer(value.v[1])
      [] value.t = "BulkString" -> write_bulk_string(value.v[1])
      [] value.t = "BulkBytes" -> write_bulk_bytes(value.v[1])
      [] value.t = "Array" -> write_array(value.v)
      [] value.t = "NullBulkString" -> write_null_bulk_string
      [] value.t = "NullArray" -> write_null_array

\* AsyncBufReadExt::fill_buf: the buffered bytes, empty at the end of the stream
fill_buf(fills) == IF fills = <<>> THEN <<>> ELSE Head(fills)

\* AsyncBufReadExt::consume
consume(fills, n) ==
    IF n = Len(Head(fills)) THEN Tail(fills)
    ELSE <<SubSeq(Head(fills), n + 1, Len(Head(fills)))>> \o Tail(fills)

\* the stream after n more bytes were taken from it
RECURSIVE Skip(_, _)
Skip(fills, n) ==
    IF n = 0 \/ fills = <<>> THEN fills
    ELSE IF n < Len(Head(fills)) THEN consume(fills, n)
    ELSE Skip(Tail(fills), n - Len(Head(fills)))

\* AsyncReadExt::read_exact (read_u8 is read_exact of one byte): the bytes, or
\* UnexpectedEof with what there was consumed
read_exact(fills, n) ==
    IF Len(Flat(fills)) < n THEN [ok |-> FALSE, data |-> <<>>, rest |-> <<>>]
    ELSE [ok |-> TRUE, data |-> SubSeq(Flat(fills), 1, n), rest |-> Skip(fills, n)]

\* the result of reading a line: kind is "Ok", "Invalid" or "Io"
LineResult(kind, size, line, rest, message) ==
    [kind |-> kind, size |-> size, line |-> line, rest |-> rest, message |-> message]

\* the result of ValueReader::read: kind is "Ok", "EndOfInput", "Invalid" or "Io"
ReadResult(kind, value, rest, message) ==
    [kind |-> kind, value |-> value, rest |-> rest, message |-> message]

\* the position of the first CR LF within one fill, 0 when there is none
FindCRLF(bytes) ==
    LET eol == {i \in 1..(Len(bytes) - 1) : bytes[i] = CR /\ bytes[i + 1] = LF}
    IN  IF eol = {} THEN 0 ELSE CHOOSE i \in eol : \A j \in eol : i <= j

\* the loop of read_line_bytes without the case of a CR LF across two fills
RECURSIVE read_line_loop_no_edge(_, _, _, _)
read_line_loop_no_edge(fills, line, cr_found, total_bytes_read) ==
    WithValue(<<fill_buf(fills), FindCRLF(fill_buf(fills))>>, LAMBDA b :
        IF Len(b[1]) = 0 THEN LineResult("Io", 0, <<>>, fills, "UnexpectedEof")
        ELSE IF b[2] > 0
        THEN LineResult("Ok", total_bytes_read + b[2] + 1,
                        line \o SubSeq(b[1], 1, b[2] - 1), consume(fills, b[2] + 1), "")
        ELSE read_line_loop_no_edge(consume(fills, Len(b[1])), line \o b[1],
                                    cr_found, total_bytes_read + Len(b[1])))

\* the loop of ValueReader::read_line_bytes, from the state of its local variables;
\* b is the fill (bytes) and the place of the first CR LF in it
RECURSIVE read_line_loop(_, _, _, _)
read_line_loop(fills, line, cr_found, total_bytes_read) ==
    WithValue(<<fill_buf(fills), FindCRLF(fill_buf(fills))>>, LAMBDA b :
        IF Len(b[1]) = 0 THEN LineResult("Io", 0, <<>>, fills, "UnexpectedEof")
        ELSE IF cr_found /\ b[1][1] = LF
        THEN LineResult("Ok", total_bytes_read + 1,
                        SubSeq(line, 1, Len(line) - 1), consume(fills, 1), "")
        ELSE IF b[2] > 0
        THEN LineResult("Ok", total_bytes_read + b[2] + 1,
                        line \o SubSeq(b[1], 1, b[2] - 1), consume(fills, b[2] + 1), "")
        ELSE read_line_loop(consume(fills, Len(b[1])), line \o b[1],
                            cr_found \/ b[1][Len(b[1])] = CR,
                            total_bytes_read + Len(b[1])))

\* ValueReader::read_line_bytes
read_line_bytes(fills) == read_line_loop(fills, <<>>, FALSE, 0)

\* ValueReader::read_line
read_line(fills) ==
    WithValue(read_line_bytes(fills), LAMBDA r :
        IF r.kind = "Ok" /\ ~valid_utf8(r.line)
        THEN LineResult("Invalid", 0, <<>>, r.rest, "invalid UTF-8 in simple string")
        ELSE r)

\* ValueReader::parse_string: the line's size and the number in line[1]
parse_string(fills, message) ==
    WithValue(read_line(fills), LAMBDA r :
        IF r.kind # "Ok" THEN r
        ELSE WithValue(from_str(r.line), LAMBDA parsed :
                IF parsed = <<>> THEN LineResult("Invalid", 0, <<>>, r.rest, message)
                ELSE LineResult("Ok", r.size, parsed, r.rest, "")))

\* ValueReader::read_length
read_length(fills) == parse_string(fills, "invalid length")

\* the error of a line read, as the error of the value read
LineError(r) == ReadResult(r.kind, NoValue, r.rest, r.message)

\* ValueReader::read_simple_string
read_simple_string(fills) ==
    WithValue(read_line(fills), LAMBDA r :
        IF r.kind # "Ok" THEN LineError(r)
        ELSE ReadResult("Ok", [t |-> "SimpleString", size |-> r.size + 1, v |-> <<r.line>>],
                        r.rest, ""))

\* ValueReader::read_simple_error
read_simple_error(fills) ==
    WithValue(read_line(fills), LAMBDA r :
        IF r.kind # "Ok" THEN LineError(r)
        ELSE ReadResult("Ok", [t |-> "SimpleError", size |-> r.size + 1, v |-> <<r.line>>],
                        r.rest, ""))

\* ValueReader::read_integer
read_integer(fills) ==
    WithValue(parse_string(fills, "invalid integer value"), LAMBDA r :
        IF r.kind # "Ok" THEN LineError(r)
        ELSE ReadResult("Ok", [t |-> "Integer", size |-> r.size + 1, v |-> r.line],
                        r.rest, ""))

\* read_bulk_string after the length l was read: the payload and its terminator
read_bulk_data(l) ==
    WithValue(read_exact(l.rest, l.line[1] + 2), LAMBDA d :
        IF ~d.ok THEN ReadResult("Io", NoValue, d.rest, "UnexpectedEof")
        ELSE IF SubSeq(d.data, l.line[1] + 1, l.line[1] + 2) # CRLF
        THEN ReadResult("Invalid", NoValue, d.rest, "bulk string not terminated by \\r\\n")
        ELSE ReadResult("Ok",
                        [t |-> "BulkString", size |-> l.line[1] + l.size + 3,
                         v |-> <<SubSeq(d.data, 1, l.line[1])>>],
                        d.rest, ""))

\* ValueReader::read_bulk_string
read_bulk_string(fills) ==
    WithValue(read_length(fills), LAMBDA l :
        IF l.kind # "Ok" THEN LineError(l)
        ELSE IF l.line[1] < 0 THEN ReadResult("Ok", NullBulkString, l.rest, "")
        ELSE read_bulk_data(l))

\* ValueReader::read and read_array; read_values is the loop of read_array
RECURSIVE read(_)
RECURSIVE read_values(_, _, _, _)
read_values(fills, length, values, values_size) ==
    IF length = 0 THEN ReadResult("Ok", [t |-> "Array", size |-> values_size, v |-> values],
                                  fills, "")
    ELSE WithValue(read(fills), LAMBDA r :
            IF r.kind # "Ok" THEN r
            ELSE read_values(r.rest, length - 1, Append(values, r.value),
                             values_size + r.value.size))

\* read_array after the length l was read: the elements
read_array_values(l) ==
    WithValue(read_values(l.rest, l.line[1], <<>>, 0), LAMBDA r :
        IF r.kind # "Ok" THEN r
        ELSE ReadResult("Ok",
                        [t |-> "Array", size |-> r.value.size + l.size + 1, v |-> r.value.v],
                        r.rest, ""))

read_array(fills) ==
    WithValue(read_length(fills), LAMBDA l :
        IF l.kind # "Ok" THEN LineError(l)
        ELSE IF l.line[1] < 0 THEN ReadResult("Ok", NullArray, l.rest, "")
        ELSE read_array_values(l))

\* ValueReader::read_char
read_char(fills) ==
    WithValue(read_exact(fills, 1), LAMBDA b :
        IF b.ok THEN [kind |-> "Ok", prefix |-> b.data[1], rest |-> b.rest]
        ELSE [kind |-> "EndOfInput", prefix |-> 0, rest |-> b.rest])

read(fills) ==
    WithValue(read_char(fills), LAMBDA c :
        IF c.kind # "Ok" THEN ReadResult("EndOfInput", NoValue, c.rest, "")
        ELSE CASE c.prefix = PLUS -> read_simple_string(c.rest)
               [] c.prefix = MINUS -> read_simple_error(c.rest)
               [] c.prefix = COLON -> read_integer(c.rest)
               [] c.prefix = DOLLAR -> read_bulk_string(c.rest)
               [] c.prefix = STAR -> read_array(c.rest)
               [] OTHER -> ReadResult("Invalid", NoValue, c.rest, "invalid RESP value"))

(***************************************************************************)
(* The codec workload: values are written to a buffer, or a peer's bytes   *)
(* are taken as they are, the stream is cut into fills, and values or      *)
(* lines are read from it.                                                 *)
(***************************************************************************)
MaxWireWrites == 2   \* values written to the stream
MaxFills == 3        \* fills the stream is cut into
MaxWireReads == 2    \* reads from the stream

\* values built by the constructors of value/mod.rs and by format::to_value
ConstructedValues ==
    { OnWire(ok),
      OnWire(simple_error("E")),
      OnWire(bulk_string_from_bytes("")),
      OnWire(bulk_string_from_bytes("k")),
      integer(0 - 1),
      integer(10),
      OnWire(command_str("GET", <<"k">>)),
      OnWire(to_value(Cmd("Ping", 0, <<>>, <<>>))),
      OnWire(to_value(Cmd("Set", 0, <<"k", "v">>, <<1>>))) }

\* values built from the variants directly
VariantValues ==
    { NullBulkString,
      NullArray,
      [t |-> "BulkBytes", size |-> 1, v |-> <<<<82>>>>],
      [t |-> "BulkString", size |-> 0, v |-> <<CRLF>>],
      [t |-> "SimpleString", size |-> 0, v |-> <<<<97, CR, LF, 98>>>>],
      [t |-> "SimpleString", size |-> 0, v |-> <<<<CR, 98, LF>>>>],
      [t |-> "Array", size |-> 0, v |-> <<>>],
      [t |-> "Array", size |-> 0,
       v |-> <<NullBulkString, [t |-> "Array", size |-> 0, v |-> <<integer(7)>>]>>] }

\* byte streams of a peer: a truncated array, an unknown prefix, a bulk string
\* without its terminator, an integer and a length that do not parse, a truncated
\* bulk string, a line without its terminator, two lines, a line with a lone CR
\* and a lone LF, a line that is not UTF-8, and nothing; a null bulk string and a
\* null array with the length -10, alone and as the element of an array
WireStreams ==
    { <<DOLLAR, MINUS, 49, 48, CR, LF>>,
      <<STAR, MINUS, 49, 48, CR, LF>>,
      <<STAR, 49, CR, LF, DOLLAR, MINUS, 49, 48, CR, LF>>,
      <<STAR, 49, CR, LF>>,
      <<120>>,
      <<DOLLAR, 50, CR, LF, 79, 75, 120, 120>>,
      <<COLON, 120, CR, LF>>,
      <<DOLLAR, 120, CR, LF>>,
      <<DOLLAR, 51, CR, LF, 97>>,
      <<PLUS, 79, 75>>,
      <<79, 75, CR, LF, 65, CR, LF>>,
      <<97, CR, 98, LF, 99, CR, LF>>,
      <<PLUS, 255, CR, LF>>,
      <<>> }

\* the ways to cut a stream into at most k fills, none of them empty
RECURSIVE Splits(_, _)
Splits(bytes, k) ==
    IF bytes = <<>> THEN {<<>>}
    ELSE IF k <= 1 THEN {<<bytes>>}
    ELSE {<<bytes>>} \cup
         UNION { { <<SubSeq(bytes, 1, i)>> \o r :
                     r \in Splits(SubSeq(bytes, i + 1, Len(bytes)), k - 1) } :
                 i \in 1..(Len(bytes) - 1) }

InitWire == InitWorkload("master", "wire")

\* ValueWriter::write of one more value to the buffer
WireWrite ==
    /\ suite = "wire"
    /\ wirePc \in {"idle", "write"}
    /\ Len(wireIn) < MaxWireWrites
    /\ \E built \in BOOLEAN :
         \E value \in (IF built THEN ConstructedValues ELSE VariantValues) :
           \E bytes \in {write(value)} :
             /\ wireIn' = Append(wireIn, [value |-> value, built |-> built, bytes |-> bytes])
             /\ wireBytes' = wireBytes \o bytes
    /\ wirePc' = "write"
    /\ UNCHANGED <<clockVars, optVars, envVars, wireFills, wireOut, initVars, upVars,
                   actorVars, connVars, mailbox, arrived>>

\* the bytes of a peer arrive instead
WireFeed ==
    /\ suite = "wire"
    /\ wirePc = "idle"
    /\ \E bytes \in WireStreams : wireBytes' = bytes
    /\ wirePc' = "fed"
    /\ UNCHANGED <<clockVars, optVars, envVars, wireIn, wireFills, wireOut, initVars,
                   upVars, actorVars, connVars, mailbox, arrived>>

\* the reader's BufReader will see the stream as these fills
WireSplit ==
    /\ wirePc \in {"write", "fed"}
    /\ \E fills \in Splits(wireBytes, MaxFills) : wireFills' = fills
    /\ wirePc' = "read"
    /\ UNCHANGED <<clockVars, optVars, envVars, wireIn, wireBytes, wireOut, initVars,
                   upVars, actorVars, connVars, mailbox, arrived>>

\* the entry of wireOut for one read: what the stream held before and after it
WireEntry(op, kind, value, size, before, after) ==
    [op |-> op, kind |-> kind, value |-> value, size |-> size,
     before |-> Flat(before), after |-> Flat(after), fills |-> before]

\* ValueReader::read
WireRead ==
    /\ wirePc = "read"
    /\ Len(wireOut) < MaxWireReads
    /\ \E r \in {read(wireFills)} :
           /\ wireOut' = Append(wireOut, WireEntry("read", r.kind, r.value, r.value.size,
                                                   wireFills, r.rest))
           /\ wireFills' = r.rest
    /\ UNCHANGED <<clockVars, optVars, envVars, wirePc, wireIn, wireBytes, initVars,
                   upVars, actorVars, connVars, mailbox, arrived>>

\* ValueReader::read_line_bytes
WireReadLine ==
    /\ wirePc = "read"
    /\ Len(wireOut) < MaxWireReads
    /\ \E r \in {read_line_bytes(wireFills)} :
           /\ wireOut' = Append(wireOut, WireEntry("line", r.kind,
                                                   [t |-> "Line", size |-> r.size, v |-> <<r.line>>],
                                                   r.size, wireFills, r.rest))
           /\ wireFills' = r.rest
    /\ UNCHANGED <<clockVars, optVars, envVars, wirePc, wireIn, wireBytes, initVars,
                   upVars, actorVars, connVars, mailbox, arrived>>

NextWire ==
    \/ WireWrite
    \/ WireFeed
    \/ WireSplit
    \/ WireRead
    \/ WireReadLine

SpecWire == InitWire /\ [][NextWire]_vars

(***************************************************************************)
(* The error workload: one client connection of a master whose reader task *)
(* reads, with the codec above, the bytes the client sent.  wireFills is   *)
(* what the client sent and the reader has not consumed, wireOut the       *)
(* results of the reader's calls of ValueReader::read.  The stream is the  *)
(* socket of the first connection; further connections stay silent.        *)
(***************************************************************************)
MaxErrSends == 2     \* error workload: chunks of bytes the client sends

\* Command::try_from on a value the codec read: from_value and from_values, and the
\* from_utf8 of the command name in from_parts
try_from(value) ==
    IF value.t # "Array" THEN ParseError("value must be a RESP array")
    ELSE IF value.v = <<>> THEN ParseError("RESP array must not be empty")
    ELSE IF \E i \in DOMAIN value.v : value.v[i].t # "BulkString"
         THEN ParseError("RESP array element must be a bulk string")
    ELSE IF ~valid_utf8(value.v[1].v[1]) THEN ParseError("invalid UTF-8")
    ELSE from_parts(value.size, [i \in DOMAIN value.v |-> as_text(value.v[i].v[1])])

\* a reader that answers an I/O error with an error reply
ReadCommandResult_io_invalid(r) ==
    CASE r.kind = "Ok" -> IF try_from(r.value).ok THEN "Success" ELSE "Invalid"
      [] r.kind = "EndOfInput" -> "Stop"
      [] OTHER -> "Invalid"

\* read_command and parse_command: the ReadCommandResult for a result of read
ReadCommandResult(r) ==
    CASE r.kind = "Ok" -> IF try_from(r.value).ok THEN "Success" ELSE "Invalid"
      [] r.kind = "EndOfInput" -> "Stop"
      [] r.kind = "Invalid" -> "Invalid"
      [] OTHER -> "Stop"

\* the command, or the message of the simple error, of a result that is not Stop
CommandOf(r) ==
    IF r.kind = "Ok" THEN try_from(r.value)
    ELSE [ok |-> FALSE, cmd |-> NoCommand, err |-> "invalid RESP value"]

\* what the client sends in one piece: PING, SET k v, an unknown prefix, an
\* integer that does not parse, a simple string, an empty array, an array with an
\* integer in it, a command name that is not UTF-8, an unknown command, GET
\* without a key, SET with a PX that is no number, and a bulk string cut short
ErrStreams ==
    { write(OnWire(command_str("PING", <<>>))),
      write(OnWire(command_str("SET", <<"k", "v">>))),
      <<120>>,
      <<COLON, 120, CR, LF>>,
      write(OnWire(ok)),
      write([t |-> "Array", size |-> 0, v |-> <<>>]),
      write([t |-> "Array", size |-> 0, v |-> <<integer(1)>>]),
      <<STAR, 49, CR, LF, DOLLAR, 49, CR, LF, 255, CR, LF>>,
      write(OnWire(command_str("bogus", <<>>))),
      write(OnWire(command_str("GET", <<>>))),
      write(OnWire(command_str("SET", <<"k", "v", "PX", "x">>))),
      <<DOLLAR, 51, CR, LF, 97>> }

InitErrors == InitWorkload("master", "errors")

\* the connection whose socket the stream is: the first one accepted
WireConn == CHOOSE c \in Conns : \A d \in Conns : c <= d

\* the client writes a piece of bytes to the connection
ClientSend(c) ==
    /\ suite = "errors"
    /\ c = WireConn
    /\ sock[c] = "open"
    /\ Len(wireIn) < MaxErrSends
    /\ \E bytes \in ErrStreams :
         /\ wireFills' = Append(wireFills, bytes)
         /\ wireBytes' = wireBytes \o bytes
         /\ wireIn' = Append(wireIn, [value |-> NoValue, built |-> FALSE, bytes |-> bytes])
    /\ UNCHANGED <<clockVars, optVars, envVars, wirePc, wireOut, initVars, upVars,
                   actorVars, connVars, mailbox, arrived>>

\* handle_client_reader, one turn of the loop: read_command on the bytes of the
\* socket.  A read that runs out of bytes waits while the socket is open and ends
\* with an error once the peer has closed it.
ReaderReadSocket(c) ==
    /\ c = WireConn
    /\ readerPc[c] = "run"
    /\ sock[c] # "closed"
    /\ Len(wireOut) < MaxErrReads
    /\ \E r \in {read(wireFills)} :
           /\ r.kind \in {"EndOfInput", "Io"} => sock[c] = "dropped"
           /\ wireOut' = Append(wireOut, WireEntry("read", r.kind, r.value, r.value.size,
                                                   wireFills, r.rest))
           /\ wireFills' = r.rest
           /\ IF ReadCommandResult(r) = "Stop"
              THEN /\ readerPc' = [readerPc EXCEPT ![c] = "done"]
                   /\ UNCHANGED <<mailbox, arrived, replies, readLog>>
              ELSE ReaderTurn(c, CommandOf(r))
    /\ UNCHANGED <<clockVars, optVars, envVars, wirePc, wireIn, wireBytes, initVars,
                   upVars, actorVars, writerPc, sock, writing, out>>

NextErrors ==
    \/ \E c \in Conns :
          \/ Accept(c)
          \/ ClientSend(c)
          \/ Drop(c)
          \/ ReaderReadSocket(c)
          \/ WriterRecv(c)
          \/ WriterWrite(c)
          \/ WriterClose(c)
    \/ ActorStart
    \/ ActorProcessCommand

SpecErrors == InitErrors /\ [][NextErrors]_vars

(***************************************************************************)
(* The upstream error workload: a replica whose streaming loop reads, with *)
(* the codec above, the bytes the master sends after the snapshot.         *)
(* wireFills is what the master sent and the loop has not consumed,        *)
(* wireOut the results of the loop's calls of ValueReader::read.           *)
(***************************************************************************)
MaxUpSends == 2      \* upstream error workload: chunks of bytes the master sends
MaxUpSockReads == 3  \* upstream error workload: values read from the upstream

\* a CommandReader that stops on a value that is not legal RESP
CommandReaderRead_invalid_stops(r) ==
    CASE r.kind = "Ok" -> IF try_from(r.value).ok THEN "Ok" ELSE "Invalid"
      [] OTHER -> "Stop"

\* CommandReader::read and parse_command of command/reader.rs: Ok(command),
\* CommandReadError::Invalid or CommandReadError::Stop for a result of read
CommandReaderRead(r) ==
    CASE r.kind = "Ok" -> IF try_from(r.value).ok THEN "Ok" ELSE "Invalid"
      [] r.kind = "EndOfInput" -> "Stop"
      [] r.kind = "Invalid" -> "Invalid"
      [] OTHER -> "Stop"

\* what the master sends in one piece: SET k v, REPLCONF GETACK *, an unknown
\* prefix, an integer that does not parse, an unknown command, and a bulk string
\* cut short
UpStreams ==
    { write(OnWire(command_str("SET", <<"k", "v">>))),
      write(OnWire(command_str("REPLCONF", <<"GETACK", "*">>))),
      <<120>>,
      <<COLON, 120, CR, LF>>,
      write(OnWire(command_str("bogus", <<>>))),
      <<DOLLAR, 51, CR, LF, 97>> }

InitUpErrors == InitWorkload("replica", "uperrors")

\* the master writes a piece of bytes to the replication connection
UpSend ==
    /\ suite = "uperrors"
    /\ upPc = "run"
    /\ upSock = "open"
    /\ Len(wireIn) < MaxUpSends
    /\ \E bytes \in UpStreams :
         /\ wireFills' = Append(wireFills, bytes)
         /\ wireBytes' = wireBytes \o bytes
         /\ wireIn' = Append(wireIn, [value |-> NoValue, built |-> FALSE, bytes |-> bytes])
    /\ UNCHANGED <<clockVars, optVars, envVars, wirePc, wireOut, initVars, upVars,
                   actorVars, connVars, mailbox, arrived>>

\* replication_loop, lines 123-151, one turn: CommandReader::read on the bytes of
\* the upstream socket.  A read that runs out of bytes waits while the socket is
\* open and ends with an error once the master has closed it.
UpReadSocket ==
    /\ upPc = "run"
    /\ upSock # "none"
    /\ Len(wireOut) < MaxUpSockReads
    /\ \E r \in {read(wireFills)} :
           /\ r.kind \in {"EndOfInput", "Io"} => upSock = "dropped"
           /\ wireOut' = Append(wireOut, WireEntry("read", r.kind, r.value, r.value.size,
                                                   wireFills, r.rest))
           /\ wireFills' = r.rest
           /\ IF CommandReaderRead(r) = "Stop"
              THEN /\ upPc' = "done"
                   /\ UNCHANGED <<mailbox, arrived, upRead>>
              ELSE UpTurn(CommandOf(r))
    /\ UNCHANGED <<clockVars, optVars, envVars, wirePc, wireIn, wireBytes, initVars,
                   upSock, upQueue, upWriting, upWPc, upOut, blackHole, actorVars,
                   connVars>>

NextUpErrors ==
    \/ InitConnect
    \/ InitWrite
    \/ InitRead
    \/ InitReadBytes
    \/ UpSend
    \/ UpDrop
    \/ UpReadSocket
    \/ UpWriterRecv
    \/ UpWriterWrite
    \/ UpWriterClose
    \/ ActorStart
    \/ ActorProcessCommand

SpecUpErrors == InitUpErrors /\ [][NextUpErrors]_vars

(***************************************************************************)
(* The command workload: arrays of bulk strings are parsed, and commands   *)
(* are formatted and the result parsed; wireOut holds one entry for each.  *)
(***************************************************************************)
MaxParses == 2       \* command workload: arrays parsed and commands formatted

\* the arrays a peer sends: every command with too few, the allowed and too many
\* arguments, names and keywords in lower case, numbers with a sign or a leading
\* zero, numbers that are none, and an offset beyond 32 bits
ParseInputs ==
    { <<"PING">>, <<"PING", "a">>, <<"PING", "a", "b">>, <<"ping">>,
      <<"ECHO">>, <<"ECHO", "a">>, <<"ECHO", "a", "b">>,
      <<"GET">>, <<"GET", "k">>, <<"GET", "k", "a">>,
      <<"SET">>, <<"SET", "k">>, <<"SET", "k", "v">>, <<"SET", "k", "v", "PX">>,
      <<"SET", "k", "v", "a">>, <<"SET", "k", "v", "a", "1">>,
      <<"SET", "k", "v", "PX", "1">>, <<"SET", "k", "v", "px", "1">>,
      <<"SET", "k", "v", "PX", "+1">>, <<"SET", "k", "v", "PX", "01">>,
      <<"SET", "k", "v", "PX", "-1">>, <<"SET", "k", "v", "PX", "x">>,
      <<"SET", "k", "v", "PX", "1", "a">>,
      <<"INFO">>, <<"INFO", "a">>, <<"INFO", "a", "b">>,
      <<"REPLCONF">>, <<"REPLCONF", "a">>, <<"REPLCONF", "a", "b">>,
      <<"REPLCONF", "a", "b", "x">>,
      <<"PSYNC">>, <<"PSYNC", "?">>, <<"PSYNC", "?", "-1">>, <<"PSYNC", "id", "0">>,
      <<"PSYNC", "id", "100">>, <<"PSYNC", "id", "-2">>, <<"PSYNC", "?", "01">>,
      <<"PSYNC", "id", "4294967297">>, <<"PSYNC", "id", "x">>,
      <<"PSYNC", "?", "-1", "a">>,
      <<"WAIT">>, <<"WAIT", "1">>, <<"WAIT", "1", "100">>, <<"WAIT", "0", "+1">>,
      <<"WAIT", "x", "1">>, <<"WAIT", "1", "100", "a">>,
      <<"bogus">> }

\* commands of every variant, as the tests build them (size 0) and with the size
\* of the array they format to
CommandShapes ==
    { Cmd("Ping", 0, <<>>, <<>>), Cmd("Ping", 0, <<"a">>, <<>>),
      Cmd("Echo", 0, <<"a">>, <<>>),
      Cmd("Get", 0, <<"k">>, <<>>),
      Cmd("Set", 0, <<"k", "v">>, <<>>), Cmd("Set", 0, <<"k", "v">>, <<100>>),
      Cmd("Info", 0, <<>>, <<>>), Cmd("Info", 0, <<"a", "b">>, <<>>),
      Cmd("Replconf", 0, <<"a", "b">>, <<>>),
      Cmd("Psync", 0, <<>>, <<>>), Cmd("Psync", 0, <<"id">>, <<100>>),
      Cmd("Psync", 0, <<"id">>, <<>>), Cmd("Psync", 0, <<>>, <<0>>),
      Cmd("Psync", 0, <<"?">>, <<0>>),
      Cmd("Wait", 0, <<>>, <<1, 100>>) }

CommandInputs ==
    CommandShapes \cup {[c EXCEPT !.size = to_value(c).size] : c \in CommandShapes}

InitParse == InitWorkload("master", "parse")

ParseEntry(op, parts, command, res) ==
    [op |-> op, parts |-> parts, command |-> command, res |-> res]

\* Command::try_from on an array of bulk strings
ParseArray ==
    /\ suite = "parse"
    /\ Len(wireOut) < MaxParses
    /\ \E parts \in ParseInputs :
         wireOut' = Append(wireOut, ParseEntry("parse", parts, NoCommand,
                                              from_value(ReadArray(parts))))
    /\ UNCHANGED <<clockVars, optVars, envVars, wirePc, wireIn, wireBytes, wireFills,
                   initVars, upVars, actorVars, connVars, mailbox, arrived>>

\* Command::to_value, and Command::try_from on the value
FormatCommand ==
    /\ suite = "parse"
    /\ Len(wireOut) < MaxParses
    /\ \E command \in CommandInputs :
         \E value \in {to_value(command)} :
           wireOut' = Append(wireOut, ParseEntry("format", value.v, command,
                                                from_value(value)))
    /\ UNCHANGED <<clockVars, optVars, envVars, wirePc, wireIn, wireBytes, wireFills,
                   initVars, upVars, actorVars, connVars, mailbox, arrived>>

NextParse ==
    \/ ParseArray
    \/ FormatCommand

SpecParse == InitParse /\ [][NextParse]_vars

(***************************************************************************)
(* C12: after SET K X without expiry the next GET K, with no command in    *)
(* between, returns X; a GET of a key that was never set returns the null  *)
(* bulk string.  The reply the client is sent is the handler's response.   *)
(***************************************************************************)
IsSet(e, K) == e.command.name = "Set" /\ e.command.args[1] = K

IsGet(e, K) == e.command.name = "Get" /\ e.command.args[1] = K

C12_SetThenGet ==
    /\ \A i \in DOMAIN execLog : \A K \in Keys :
          /\ (/\ i < Len(execLog)
              /\ IsSet(execLog[i], K)
              /\ execLog[i].command.opt = <<>>
              /\ IsGet(execLog[i + 1], K))
                => execLog[i + 1].response =
                     <<bulk_string_from_bytes(execLog[i].command.args[2])>>
          /\ (/\ IsGet(execLog[i], K)
              /\ \A j \in 1..(i - 1) : ~IsSet(execLog[j], K))
                => execLog[i].response = <<NullBulkString>>
    /\ \A c \in Conns : \A i \in DOMAIN Delivered(c) :
          (/\ Delivered(c)[i].origin = "reply"
           /\ execLog[Delivered(c)[i].re].command.name = "Get")
             => Delivered(c)[i].values = execLog[Delivered(c)[i].re].response

\* GET k before any SET was answered with the null bulk string, then SET k w was
\* followed by GET k at a later time, and w has been written to the client
C12_Witness ==
    /\ Len(execLog) = 3
    /\ IsGet(execLog[1], "k")
    /\ IsSet(execLog[2], "k") /\ execLog[2].command.args[2] = "w"
    /\ IsGet(execLog[3], "k")
    /\ execLog[3].at > execLog[2].at
    /\ \E c \in Conns :
          /\ Len(out[c]) = 3
          /\ out[c][1].values = <<NullBulkString>>
          /\ out[c][3].values[1].v = <<"w">>

(***************************************************************************)
(* C13: for a key K whose latest SET carried PX p, a GET K handled at a    *)
(* time strictly later than p ms after that SET returns the null bulk      *)
(* string and removes the entry, and a GET K handled at or before p ms     *)
(* after the SET returns the stored value.                                 *)
(***************************************************************************)
LastSetOf(log, j, K) ==
    LET S == {i \in 1..(j - 1) : IsSet(log[i], K)}
    IN  IF S = {} THEN 0 ELSE CHOOSE i \in S : \A h \in S : h <= i

C13_Expiry ==
    [][ (ExecStep /\ LastExec.command.name = "Get") =>
          LET K == LastExec.command.args[1]
              i == LastSetOf(execLog', Len(execLog'), K)
          IN  (i > 0 /\ execLog'[i].command.opt # <<>>) =>
                IF LastExec.at > execLog'[i].at + execLog'[i].command.opt[1]
                THEN /\ LastExec.response = <<NullBulkString>>
                     /\ K \notin DOMAIN database'
                ELSE /\ LastExec.response =
                          <<bulk_string_from_bytes(execLog'[i].command.args[2])>>
                     /\ K \in DOMAIN database' ]_vars

\* SET k v PX 1, a GET exactly 1 ms later that returned v, and a GET 2 ms later
\* that returned the null bulk string and removed the entry
C13_Witness ==
    /\ Len(execLog) = 3
    /\ IsSet(execLog[1], "k") /\ execLog[1].command.opt = <<1>>
    /\ IsGet(execLog[2], "k") /\ execLog[2].at = execLog[1].at + 1
    /\ execLog[2].response = <<bulk_string_from_bytes("v")>>
    /\ IsGet(execLog[3], "k") /\ execLog[3].at = execLog[1].at + 2
    /\ execLog[3].response = <<NullBulkString>>
    /\ "k" \notin DOMAIN database

(***************************************************************************)
(* C14: SET replaces the whole entry of the key: the value, the expiry (a  *)
(* SET without PX clears a previous expiry) and created_at, which becomes  *)
(* the time of the SET; a GET that finds the entry leaves it as it was,    *)
(* created_at included.                                                    *)
(***************************************************************************)
C14_SetReplacesEntry ==
    [][ ExecStep =>
          /\ LastExec.command.name = "Set" =>
                database'[LastExec.command.args[1]] =
                   Entry(LastExec.command.args[2], LastExec.command.opt, now)
          /\ LastExec.command.name = "Get" =>
                LET K == LastExec.command.args[1]
                IN  K \in DOMAIN database' =>
                      (K \in DOMAIN database /\ database'[K] = database[K]) ]_vars

\* an entry set with PX 1 was replaced later by a SET without PX, and a GET after
\* the first entry's expiry time returned the new value
C14_Witness ==
    /\ Len(execLog) = 3
    /\ IsSet(execLog[1], "k") /\ execLog[1].command.opt = <<1>>
    /\ IsSet(execLog[2], "k") /\ execLog[2].command.opt = <<>>
    /\ execLog[2].at > execLog[1].at
    /\ IsGet(execLog[3], "k") /\ execLog[3].at > execLog[1].at + 1
    /\ execLog[3].response = <<bulk_string_from_bytes("w")>>
    /\ "k" \in DOMAIN database
    /\ database["k"] = Entry("w", <<>>, execLog[2].at)

(***************************************************************************)
(* C15: the bytes the writer produces for a sequence of values are read    *)
(* back, however the stream is cut into fills, as the same values in the   *)
(* same order, each reported with a size equal to the number of bytes the  *)
(* writer produced for it.  "The same value" is the same variant with the  *)
(* same payload.  As stated, for every value, it fails; it holds of the    *)
(* values that hold no BulkBytes and no simple string or error with a CR   *)
(* or LF in its text.                                                      *)
(***************************************************************************)
RECURSIVE SamePayload(_, _)
SamePayload(a, b) ==
    /\ a.t = b.t
    /\ IF a.t = "Array"
       THEN /\ Len(a.v) = Len(b.v)
            /\ \A i \in DOMAIN a.v : SamePayload(a.v[i], b.v[i])
       ELSE a.v = b.v

RECURSIVE SizedAsWritten(_)
SizedAsWritten(value) ==
    /\ value.size = Len(write(value))
    /\ value.t = "Array" => \A i \in DOMAIN value.v : SizedAsWritten(value.v[i])

RECURSIVE Plain(_)
Plain(value) ==
    CASE value.t = "BulkBytes" -> FALSE
      [] value.t \in {"SimpleString", "SimpleError"} ->
            \A i \in DOMAIN value.v[1] : value.v[1][i] \notin {CR, LF}
      [] value.t = "Array" -> \A i \in DOMAIN value.v : Plain(value.v[i])
      [] OTHER -> TRUE

\* the i-th read of a written stream, all reads so far being reads of values
ReadBack(i) ==
    /\ i <= Len(wireIn)
    /\ \A j \in 1..i : wireOut[j].op = "read"

ReadAsWritten(i) ==
    /\ wireOut[i].kind = "Ok"
    /\ SamePayload(wireOut[i].value, wireIn[i].value)
    /\ SizedAsWritten(wireOut[i].value)
    /\ wireOut[i].size = Len(wireIn[i].bytes)

C15_Original ==
    \A i \in DOMAIN wireOut : ReadBack(i) => ReadAsWritten(i)

C15_Amended ==
    \A i \in DOMAIN wireOut :
       (ReadBack(i) /\ \A j \in 1..i : Plain(wireIn[j].value)) => ReadAsWritten(i)

\* the same command array was written twice, the stream was cut into three fills, one
\* of them between a CR and its LF, and two reads returned the array twice
C15_Witness ==
    /\ Len(wireIn) = 2 /\ Len(wireOut) = 2
    /\ wireIn[1].value = wireIn[2].value
    /\ wireIn[1].value.t = "Array" /\ Len(wireIn[1].value.v) = 2
    /\ ReadBack(2) /\ ReadAsWritten(1) /\ ReadAsWritten(2)
    /\ Len(wireOut[1].fills) = 3
    /\ wireOut[1].fills[1][Len(wireOut[1].fills[1])] = CR
    /\ wireOut[2].after = <<>>

(***************************************************************************)
(* C16: a value built by a constructor carries as its size the number of   *)
(* bytes the writer emits for it.                                          *)
(***************************************************************************)
C16_Original ==
    \A i \in DOMAIN wireIn :
       wireIn[i].built => wireIn[i].value.size = Len(wireIn[i].bytes)

(***************************************************************************)
(* C17: for every stream that holds a CR LF, however it is cut into fills, *)
(* the line reader returns the bytes before the first CR LF and a count of *)
(* that length plus 2, and leaves the stream just after that CR LF.        *)
(***************************************************************************)
FirstCRLF(bytes) ==
    LET P == {p \in 1..(Len(bytes) - 1) : bytes[p] = CR /\ bytes[p + 1] = LF}
    IN  IF P = {} THEN 0 ELSE CHOOSE p \in P : \A q \in P : p <= q

C17_Original ==
    \A i \in DOMAIN wireOut :
       (wireOut[i].op = "line" /\ FirstCRLF(wireOut[i].before) > 0) =>
          LET p == FirstCRLF(wireOut[i].before)
          IN  /\ wireOut[i].kind = "Ok"
              /\ wireOut[i].value.v[1] = SubSeq(wireOut[i].before, 1, p - 1)
              /\ wireOut[i].size = p + 1
              /\ wireOut[i].after =
                    SubSeq(wireOut[i].before, p + 2, Len(wireOut[i].before))

(***************************************************************************)
(* C18: the value reader returns EndOfInput only when the stream held no   *)
(* byte at the start of the call, an end of the stream after that is an Io *)
(* error, and an unknown prefix byte is Invalid.                           *)
(***************************************************************************)
C18_Original ==
    \A i \in DOMAIN wireOut :
       wireOut[i].op = "read" =>
          /\ wireOut[i].kind = "EndOfInput" => wireOut[i].before = <<>>
          /\ wireOut[i].before = <<>> => wireOut[i].kind = "EndOfInput"
          /\ (/\ wireOut[i].before # <<>>
              /\ wireOut[i].before[1] \notin {PLUS, MINUS, COLON, DOLLAR, STAR})
                => wireOut[i].kind = "Invalid"

(***************************************************************************)
(* C19: in a client connection's reader task, a read that fails as Invalid *)
(* pushes exactly one simple-error value on the connection's reply queue   *)
(* and the task goes on reading; a read that fails as EndOfInput or Io     *)
(* pushes nothing and the task exits.  As stated it fails when the writer  *)
(* task has exited; it holds while the receiver of the queue exists, and   *)
(* without it nothing is pushed and the reader task exits.                 *)
(***************************************************************************)
SocketReadStep == Len(wireOut') = Len(wireOut) + 1

LastRead == wireOut'[Len(wireOut')]

\* exactly one list with exactly one simple error was appended to the queue of c
PushedOneError(c) ==
    /\ Len(replies'[c]) = Len(replies[c]) + 1
    /\ SubSeq(replies'[c], 1, Len(replies[c])) = replies[c]
    /\ Len(replies'[c][Len(replies'[c])].values) = 1
    /\ replies'[c][Len(replies'[c])].values[1].t = "SimpleError"

PushedNothing(c) == replies'[c] = replies[c]

IllegalCommands ==
    { <<PLUS, 79, 75, CR, LF>>,
      <<STAR, 48, CR, LF>>,
      <<STAR, 49, CR, LF, COLON, 49, CR, LF>>,
      <<STAR, 49, CR, LF, DOLLAR, 49, CR, LF, 255, CR, LF>>,
      <<STAR, 49, CR, LF, DOLLAR, 53, CR, LF, 98, 111, 103, 117, 115, CR, LF>>,
      <<STAR, 49, CR, LF, DOLLAR, 51, CR, LF, 71, 69, 84, CR, LF>>,
      <<STAR, 53, CR, LF, DOLLAR, 51, CR, LF, 83, 69, 84, CR, LF, DOLLAR, 49, CR, LF, 107, CR, LF,
        DOLLAR, 49, CR, LF, 118, CR, LF, DOLLAR, 50, CR, LF, 80, 88, CR, LF,
        DOLLAR, 49, CR, LF, 120, CR, LF>> }

\* the bytes a read consumed
Consumed(e) == SubSeq(e.before, 1, Len(e.before) - Len(e.after))

NothingSent ==
    /\ mailbox' = mailbox
    /\ arrived' = arrived
    /\ UNCHANGED <<database, replicas, offset>>

AppliedAfterInvalid ==
    \E i \in DOMAIN execLog :
        /\ execLog[i].src = Upstream
        /\ \E j \in 1..(execLog[i].seq - 1) :
              ~upRead[j].ok /\ upRead[j].err = "invalid RESP value"

NameOf(parts) == to_uppercase(Head(parts))

ArityAllowed(parts) ==
    LET n == Len(parts) - 1
    IN  CASE NameOf(parts) = "PING" -> n \in {0, 1}
          [] NameOf(parts) \in {"ECHO", "GET"} -> n = 1
          [] NameOf(parts) = "SET" -> n \in {2, 4}
          [] NameOf(parts) \in {"REPLCONF", "PSYNC", "WAIT"} -> n = 2
          [] OTHER -> TRUE

ParsedEntries == {i \in DOMAIN wireOut : wireOut[i].op = "parse"}

C22_Original ==
    \A i \in ParsedEntries : ~ArityAllowed(wireOut[i].parts) => ~wireOut[i].res.ok

(***************************************************************************)
(* C23: parsing PSYNC maps the replid to none exactly when it is the       *)
(* literal ?, and the offset to none exactly when it is the number -1;     *)
(* every other replid and every other numeric offset is kept as given: the *)
(* stored offset equals the number sent.                                   *)
(***************************************************************************)
\* the number a decimal text denotes, as [neg, hi, lo]
NumberSent(text) == str_parse("i64", as_bytes(text))[1]

IsNumber(text) == str_parse("i64", as_bytes(text)) # <<>>

MinusOne(w) == w.neg /\ w.hi = 0 /\ w.lo = 1

\* the stored number n is the number w
SameNumber(n, w) == ~w.neg /\ n \div 2^16 = w.hi /\ n % 2^16 = w.lo

PsyncEntries ==
    {i \in ParsedEntries : /\ NameOf(wireOut[i].parts) = "PSYNC"
                           /\ Len(wireOut[i].parts) = 3
                           /\ IsNumber(wireOut[i].parts[3])}

C23_Original ==
    \A i \in PsyncEntries :
        LET parts == wireOut[i].parts
            command == wireOut[i].res.cmd
        IN  /\ wireOut[i].res.ok
            /\ command.name = "Psync"
            /\ command.args = (IF parts[2] = "?" THEN <<>> ELSE <<parts[2]>>)
            /\ IF MinusOne(NumberSent(parts[3])) THEN command.opt = <<>>
               ELSE /\ Len(command.opt) = 1
                    /\ SameNumber(command.opt[1], NumberSent(parts[3]))

(***************************************************************************)
(* C24: for every command c of every variant, parsing the value that       *)
(* formatting c produces yields c again.  As stated it fails: the command  *)
(* parsed carries the size of the formatted array, not the size of c, and  *)
(* a Psync whose replid is the literal ? comes back without replid.  What  *)
(* holds is that the parse succeeds and yields the variant and the fields  *)
(* of c other than size, but for that replid.                              *)
(***************************************************************************)
FormatEntries == {i \in DOMAIN wireOut : wireOut[i].op = "format"}

C24_Original ==
    \A i \in FormatEntries :
        wireOut[i].res.ok /\ wireOut[i].res.cmd = wireOut[i].command

\* the fields of a command other than its size
Fields(command) == [name |-> command.name, args |-> command.args, opt |-> command.opt]

C24_Amended ==
    \A i \in FormatEntries :
        LET c == wireOut[i].command
        IN  /\ wireOut[i].res.ok
            /\ Fields(wireOut[i].res.cmd) =
                  (IF c.name = "Psync" /\ c.args = <<"?">>
                   THEN [Fields(c) EXCEPT !.args = <<>>]
                   ELSE Fields(c))

\* a SET with an expiry of 100 ms and a PSYNC with the replid ? and the offset 0
\* were formatted and parsed: the SET came back with its expiry, the PSYNC
\* without replid, both with the size of the array
C24_Witness ==
    /\ Len(wireOut) = 2
    /\ wireOut[1].op = "format" /\ wireOut[2].op = "format"
    /\ wireOut[1].command = Cmd("Set", 0, <<"k", "v">>, <<100>>)
    /\ wireOut[1].parts = <<"SET", "k", "v", "PX", "100">>
    /\ wireOut[1].res.cmd = Cmd("Set", 24, <<"k", "v">>, <<100>>)
    /\ wireOut[2].command = Cmd("Psync", 0, <<"?">>, <<0>>)
    /\ wireOut[2].res.cmd = Cmd("Psync", 16, <<>>, <<0>>)

(***************************************************************************)
(* C25: for every array of bulk strings whose first element names a        *)
(* supported command and whose number of arguments is allowed, formatting  *)
(* the command parsed from it yields the same array, element by element.   *)
(***************************************************************************)
Supported == {"PING", "ECHO", "GET", "SET", "INFO", "REPLCONF", "PSYNC", "WAIT"}

\* the arrays the property speaks of that were parsed into a command
RoundTripEntries ==
    {i \in ParsedEntries : /\ NameOf(wireOut[i].parts) \in Supported
                           /\ ArityAllowed(wireOut[i].parts)
                           /\ wireOut[i].res.ok}

C25_Original ==
    \A i \in RoundTripEntries : to_value(wireOut[i].res.cmd).v = wireOut[i].parts

(***************************************************************************)
(* C26: no error on one connection propagates to another.  Whatever read   *)
(* error, write error or closed reply queue the other connections have     *)
(* met, the command actor is not stopped, and for a connection B whose     *)
(* socket is open every command B submitted is queued for the actor or was *)
(* executed, and the reply list of every command executed was sent and is  *)
(* on its way to B's socket: queued, being written or written, value for   *)
(* value.                                                                  *)
(***************************************************************************)
\* the values of the reply to command j among a sequence of queue items
RECURSIVE ValuesFor(_, _)
ValuesFor(items, j) ==
    IF items = <<>> THEN <<>>
    ELSE (IF Head(items).origin = "reply" /\ Head(items).re = j
          THEN Head(items).values ELSE <<>>) \o ValuesFor(Tail(items), j)

ReaderSends(c) ==
    /\ Len(arrived') = Len(arrived) + 1
    /\ arrived'[Len(arrived')].type = "ProcessCommand"
    /\ arrived'[Len(arrived')].reply_to = Client(c)

C27_Original ==
    [][\A c \in Conns : writerPc[c] = "done" => ~ReaderSends(c)]_vars

(***************************************************************************)
(* C28: for every connection, one registered as a replica included, after  *)
(* the reader task has exited the writer task eventually exits.  In the    *)
(* form a finite run refutes: once the reader task has exited and the      *)
(* actor has no message left to handle, the writer task has exited or can  *)
(* take its next step: a queued list to receive, a value to write, or the  *)
(* end of its queue to see.                                                *)
(***************************************************************************)
\* handle_client_writer can go on: recv() returns, or a write is due
WriterCanStep(c) ==
    \/ writing[c].values # <<>>
    \/ replies[c] # <<>>
    \/ ~SendersAlive(c)

FannedOutTo(c) ==
    {Delivered(c)[i].re : i \in {k \in DOMAIN Delivered(c) : Delivered(c)[k].origin = "fanout"}}

HandlesWait ==
    /\ Len(execLog') = Len(execLog) + 1
    /\ execLog'[Len(execLog')].command.name = "Wait"

InfoLines ==
    {"role:master", "role:slave",
     "master_replid:8371b4fb1155b71f4a04d3e1bc3e18c4a990aeeb", "master_repl_offset:0"}

\* the lines of a text, joined as the reply joins them
RECURSIVE JoinLines(_)
JoinLines(ls) ==
    IF Len(ls) = 1 THEN ls[1] ELSE ls[1] \o "\r\n" \o JoinLines(Tail(ls))

\* the sequences of distinct lines a body can be made of
LineOrders ==
    UNION {{ls \in [1..n -> InfoLines] : \A i, j \in 1..n : i # j => ls[i] # ls[j]} :
           n \in 1..Cardinality(InfoLines)}

\* the set of lines of a body
LinesOfBody(body) ==
    UNION {{ls[i] : i \in DOMAIN ls} : ls \in {o \in LineOrders : JoinLines(o) = body}}

InfoEntries == {i \in DOMAIN execLog : execLog[i].command.name = "Info"}

C31_Original ==
    /\ \A i \in InfoEntries :
         /\ Len(execLog[i].response) = 1
         /\ execLog[i].response[1].t = "BulkString"
         /\ {IF role = "master" THEN "role:master" ELSE "role:slave",
             "master_replid:8371b4fb1155b71f4a04d3e1bc3e18c4a990aeeb",
             "master_repl_offset:0"} \subseteq LinesOfBody(execLog[i].response[1].v[1])
    /\ \A i, j \in InfoEntries : execLog[i].response = execLog[j].response

(***************************************************************************)
(* C32: after a fatal accept error the listener accepts no further         *)
(* connection, and the listener task finishes only after every connection  *)
(* duplex outstanding at that moment has finished.                         *)
(***************************************************************************)
\* handle_client has returned: one of the two tasks it awaits has finished
DuplexFinished(c) == readerPc[c] = "done" \/ writerPc[c] = "done"

C32_Original ==
    [][/\ listenerPc = "done" =>
            \A c \in Conns : sock[c] = "closed" => sock'[c] = "closed"
       /\ (listenerPc = "run" /\ listenerPc' = "done") =>
            \A c \in Conns : sock[c] # "closed" => DuplexFinished(c)]_vars

(***************************************************************************)
(* C33: the replication offset starts at 0 and never decreases; handling   *)
(* a ProcessCommand message increases it by exactly the wire size the      *)
(* command carries, on a master and on a replica alike and whether or not  *)
(* the reply could be delivered; handling an AddReplica message leaves it  *)
(* unchanged, as does every step of another task.                          *)
(***************************************************************************)
\* the message the actor handles in a step
HandledInStep == handled'[Len(handled')]

C33_Offset ==
    /\ offset = 0
    /\ [][/\ offset' >= offset
          /\ IF Len(handled') = Len(handled) + 1
             THEN IF HandledInStep.type = "ProcessCommand"
                  THEN offset' = offset + HandledInStep.command.size
                  ELSE offset' = offset
             ELSE offset' = offset]_vars

\* the sum of the wire sizes of the commands executed
RECURSIVE SizeSum(_)
SizeSum(log) == IF log = <<>> THEN 0 ELSE Head(log).command.size + SizeSum(Tail(log))

\* a command whose reply could not be delivered and a command that is not a
\* write were executed, an AddReplica was handled, and the offset is the sum of
\* the sizes of the commands executed
C33_Witness ==
    /\ \E i \in DOMAIN execLog : ~execLog[i].replied
    /\ \E i \in DOMAIN execLog : ~is_write(execLog[i].command)
    /\ \E i \in DOMAIN handled : handled[i].type = "AddReplica"
    /\ offset = SizeSum(execLog)
    /\ offset > 0

(***************************************************************************)
(* C34: every value the reader returns carries exactly the number of       *)
(* stream bytes consumed to produce it: for an array 1 + the digits of its *)
(* length + 2 + the sum of the sizes of its elements, and for a null bulk  *)
(* string or a null array the length of the header line read, for every    *)
(* header text that parses to a negative length.                           *)
(***************************************************************************)
\* the sizes of the elements of an array
ChildSizes(value) == [k \in DOMAIN value.v |-> value.v[k].size]

C34_Original ==
    \A i \in DOMAIN wireOut :
       (wireOut[i].op = "read" /\ wireOut[i].kind = "Ok") =>
          /\ wireOut[i].value.size = Len(Consumed(wireOut[i]))
          /\ wireOut[i].value.t = "Array" =>
                wireOut[i].value.size =
                   1 + (FirstCRLF(wireOut[i].before) - 2) + 2
                     + SumSeq(ChildSizes(wireOut[i].value))

(***************************************************************************)
(* C35: on one connection, the simple-error reply to a request that fails  *)
(* value or command parsing is never placed on the reply queue ahead of    *)
(* the reply to a valid command that was read earlier from the same        *)
(* connection.                                                             *)
(***************************************************************************)
\* the positions in a read log of the requests that failed to parse
InvalidIdx(log) ==
    LET sel == SelectSeq(Indexed(log), LAMBDA x : ~x.e.ok)
    IN  [k \in 1..Len(sel) |-> sel[k].i]

\* the position in connection c's read log of the request that the error reply
\* at place a of what is headed for c's socket answers: the error replies are
\* queued in the order their requests were read
RequestOfError(c, a) ==
    InvalidIdx(readLog[c])[Cardinality({k \in 1..a : Delivered(c)[k].origin = "invalid"})]

C35_Original ==
    \A c \in Conns : \A a, b \in DOMAIN Delivered(c) :
       (/\ a < b
        /\ Delivered(c)[a].origin = "invalid"
        /\ Delivered(c)[b].origin = "reply")
          => RequestOfError(c, a) < execLog[Delivered(c)[b].re].seq

Resynced(c) ==
    \E i \in DOMAIN execLog :
       /\ execLog[i].src = Client(c)
       /\ execLog[i].command.name = "Psync"
       /\ execLog[i].replied

\* connection c has asked to be registered as a replica
Registering(c) ==
    \E k \in DOMAIN arrived : arrived[k].type = "AddReplica" /\ arrived[k].address = c

Others(data, K) == [k \in DOMAIN data \ {K} |-> data[k]]

\* the entry of key K is in the database and has expired
ExpiredIn(data, K) == K \in DOMAIN data /\ data[K].expiry # <<>>
                         /\ data[K].created_at + data[K].expiry[1] < now

C38_Frame ==
    [][IF ExecStep /\ LastExec.command.name = "Get"
       THEN IF ExpiredIn(database, LastExec.command.args[1])
            THEN /\ LastExec.command.args[1] \notin DOMAIN database'
                 /\ database' = Others(database, LastExec.command.args[1])
            ELSE database' = database
       ELSE IF ExecStep /\ LastExec.command.name = "Set"
       THEN /\ LastExec.command.args[1] \in DOMAIN database'
            /\ Others(database', LastExec.command.args[1])
                  = Others(database, LastExec.command.args[1])
       ELSE database' = database]_vars

\* the entries of k and of a have both expired; GET k was answered with the null
\* bulk string and removed k, and the expired entry of a is still there
C38_Witness ==
    /\ Len(execLog) = 3
    /\ execLog[3].command.name = "Get" /\ execLog[3].command.args = <<"k">>
    /\ execLog[3].response = <<NullBulkString>>
    /\ DOMAIN database = {"a"}
    /\ ExpiredIn(database, "a")

====
